---- MODULE Spec2Model ----
(***************************************************************************)
(* py-transmuter: declarative record transformation.                        *)
(*                                                                          *)
(*   BaseModelMapper      1:1 field mapping        (pydantic/mapper.py)     *)
(*   BaseModelAggregator  N:1 sort/group/aggregate (pydantic_mapping/       *)
(*                                                  aggregator.py)          *)
(*   get_required_fields  which target fields the validator requires        *)
(*   SelfInspector        binding of callables to the transformer           *)
(*                                                                          *)
(* A transformer class is a target schema plus class attributes (mapping,   *)
(* or mappings / aggregations / group_by / sort_by).  The caller constructs *)
(* one or two instances of the class (validation, then binding of the       *)
(* context) and calls each any number of times, in any interleaving.        *)
(***************************************************************************)
EXTENDS Integers, Sequences, FiniteSets, TLC

VARIABLES
    kind,          \* "mapper" or "aggregator": which transformer class is defined
    target,        \* the target schema: field name -> field declaration
    mapping,       \* BaseModelMapper.mapping (None when the class declares none)
    mappings,      \* BaseModelAggregator.mappings
    aggregations,  \* BaseModelAggregator.aggregations
    group_by,      \* BaseModelAggregator.group_by
    sort_by,       \* BaseModelAggregator.sort_by
    data,          \* the caller's list of source records
    \* per instance:
    ctxArg,        \* the context argument handed to its __init__
    pc,            \* "none" (never made), "new", "ready", "failed"
    error,         \* the ValueError raised by __init__, None when none was raised
    context,       \* self.context as seen through the instance
    invoked,       \* TRUE once any user-supplied function has been called
    call,          \* the last map / map_list / aggregate call and what it produced
    seen           \* what the first map_list / aggregate call produced, and
                   \* whether such a call was made again

klass == <<kind, target, mapping, mappings, aggregations, group_by, sort_by>>
inst  == <<pc, error, context>>
vars  == <<klass, data, ctxArg, inst, invoked, call, seen>>

\* The instances the caller may construct
Instances == {1, 2}

(***************************************************************************)
(* Python values                                                            *)
(***************************************************************************)
\* Python's None
None == [none |-> TRUE]

\* A dict literal, in declaration (insertion) order: items of key and val
Dict(items) == [items |-> items]
\* A tuple literal
Tuple(items) == [items |-> items]

Keys(d) == {d.items[i].key : i \in DOMAIN d.items}

\* The outcome of evaluating an expression: a value or a raised exception,
\* with the user functions and constructors entered on the way, in order
Ok(v, tr) == [ok |-> TRUE, v |-> v, trace |-> tr]
Raise(e, tr) == [ok |-> FALSE, exc |-> e, trace |-> tr]

\* The outcome res, entered after the events tr
Traced(res, tr) == [res EXCEPT !.trace = tr \o @]

\* Sequencing: a raise propagates, a value and the events so far go on to K
Then(res, K(_, _)) == IF res.ok THEN K(res.v, res.trace) ELSE res

\* What a call went through: the outcome, and for aggregate the sorted list
\* and the groups (empty when the call raised before computing them)
Went(res, srt, grp) == [res |-> res, sorted |-> srt, groups |-> grp]

\* All sequences that enumerate the finite set S once each: the orders in
\* which iterating a Python set of strings may yield its elements.
RECURSIVE Orders(_)
Orders(S) ==
    IF S = {} THEN {<<>>}
    ELSE UNION {{<<x>> \o s : s \in Orders(S \ {x})} : x \in S}

Range(s) == {s[i] : i \in DOMAIN s}

(***************************************************************************)
(* The target schema (a pydantic model class)                               *)
(***************************************************************************)
\* Names a target field or a configuration key may have
TargetNames == {"id", "name"}
KeyNames == {"id", "name", "extra"}

\* The annotation of a field: a plain type (int, list[int]), a union without
\* None (int | str), or a union with None (str | None, Optional[str])
FieldTypes == {"plain", "union", "optional"}

\* A field declaration: its annotation, whether it has a default value, and
\* whether it is declared on a parent model rather than on the target itself
FieldDecls == [type : FieldTypes, hasDefault : BOOLEAN, inherited : BOOLEAN]

Schemas == UNION {[S -> FieldDecls] : S \in SUBSET TargetNames}

\* typing.get_type_hints(model_cls): annotations of the class and its parents
TypeHints(schema) == DOMAIN schema

\* model_cls.__annotations__: annotations written on the class itself
Annotations(schema) == {f \in DOMAIN schema : ~schema[f].inherited}

\* Fields pydantic refuses to omit when building an instance: those that
\* carry no default, whatever their annotation
Mandatory(schema) == {f \in DOMAIN schema : ~schema[f].hasDefault}

get_required_fields(schema) ==
    {f \in TypeHints(schema) :
        IF schema[f].type = "optional" THEN FALSE   \* union that contains None
        ELSE IF schema[f].type = "union" THEN TRUE  \* union without None
        ELSE TRUE}                                  \* not an Optional form

\* target_model(**kwargs): pydantic builds the instance from the keyword
\* arguments, fills omitted fields from their defaults and refuses to omit a
\* field without one.  Keywords that name no field are ignored.  The value
\* types of the annotations are not modelled.
Construct(schema, kwargs) ==
    IF Mandatory(schema) \ DOMAIN kwargs # {}
    THEN Raise("ValidationError", <<"construct">>)
    ELSE Ok([given |-> [f \in DOMAIN kwargs \cap DOMAIN schema |-> kwargs[f]],
             defaulted |-> DOMAIN schema \ DOMAIN kwargs], <<"construct">>)

(***************************************************************************)
(* Source records and user-supplied callables                               *)
(***************************************************************************)
MaxVal == 1
MaxLen == 3

Values == 0..MaxVal

\* Fields of the source model, and names an instruction may mention
SrcFields == {"a", "b"}
SrcNames == {"a", "b", "c"}

Records == [SrcFields -> Values]

\* getattr(record, name)
GetAttr(r, name) ==
    IF name \in DOMAIN r THEN Ok(r[name], <<>>) ELSE Raise("AttributeError", <<>>)

\* A context dictionary handed to the constructor: {"factor": n}
Contexts == {[factor |-> 2], [factor |-> 3]}

\* The class constant FACTOR read by class-bound methods
FACTOR == 10

\* What a callable used in an instruction is, relative to the class:
\*   free            a function or lambda that is no member of the class
\*   instance        a plain function defined on the class (def or lambda)
\*   class           a classmethod object of the class
\*   static          a staticmethod object of the class
\*   static_func     the function a staticmethod of the class wraps (C.f)
\*   class_func      the function a classmethod of the class wraps
\*   wrapped_class   a classmethod object around a function that is no member
\*   wrapped_static  a staticmethod object around a function that is no member
Binds == {"free", "instance", "class", "static",
          "static_func", "class_func", "wrapped_class", "wrapped_static"}

\* The first positional parameter a function body declares besides its data
\* argument
Expects(fn) ==
    CASE fn = "scale" -> "self"
      [] fn = "times_factor" -> "cls"
      [] OTHER -> "none"

RECURSIVE SumSeq(_)
SumSeq(s) == IF s = <<>> THEN 0 ELSE Head(s) + SumSeq(Tail(s))

\* The body of a user function applied to its data argument, given the
\* context of the instance it was bound to
Body(fn, ctx, arg) ==
    CASE fn = "inc" -> Ok(arg + 1, <<fn>>)
      [] fn = "fail0" ->
            IF arg = 0 THEN Raise("ZeroDivisionError", <<fn>>) ELSE Ok(arg, <<fn>>)
      [] fn = "scale" ->
            IF ctx = None THEN Raise("TypeError", <<fn>>)
            ELSE Ok(arg * ctx.factor, <<fn>>)
      [] fn = "times_factor" -> Ok(arg * FACTOR, <<fn>>)
      [] fn = "sum_ab" -> Ok(arg.a + arg.b, <<fn>>)
      [] fn = "parity_b" -> Ok(arg.b % 2, <<fn>>)
      [] fn = "total" -> Ok(SumSeq(arg), <<fn>>)
      [] fn = "first" ->
            IF arg = <<>> THEN Raise("IndexError", <<fn>>) ELSE Ok(arg[1], <<fn>>)
      [] fn = "count" -> Ok(Len(arg), <<fn>>)

(***************************************************************************)
(* SelfInspector                                                            *)
(***************************************************************************)
\* isinstance(callable, classmethod), isinstance(callable, staticmethod)
IsClassmethod(c) == c.bind \in {"class", "wrapped_class"}
IsStaticmethod(c) == c.bind \in {"static", "wrapped_static"}

\* The callable's function (itself, or its __func__) is among
\* inspect.getmembers(cls, inspect.isfunction): the plain functions of the
\* class and the functions its staticmethods wrap
InMemberFunctions(c) == c.bind \in {"instance", "static", "static_func"}

\* The callable's function is the __func__ of one of
\* inspect.getmembers(cls, inspect.ismethod): the classmethods of the class
InMemberMethods(c) == c.bind \in {"class", "class_func"}

\* callable in functions: a descriptor object equals no function
is_instance_method(c) ==
    ~IsClassmethod(c) /\ ~IsStaticmethod(c) /\ InMemberFunctions(c)

\* isinstance(callable, classmethod) and callable.__func__ in methods
is_class_method(c) == IsClassmethod(c) /\ InMemberMethods(c)

\* isinstance(callable, staticmethod) and callable.__func__ in functions
is_static_method(c) == IsStaticmethod(c) /\ InMemberFunctions(c)

\* resolve_callable handing a classmethod the instance instead of the class
resolve_callable_self_for_class(c) ==
    IF is_instance_method(c) \/ is_class_method(c)
    THEN [fn |-> c.fn, first |-> "self", as |-> "function"]
    ELSE IF is_static_method(c)
    THEN [fn |-> c.fn, first |-> "none", as |-> "function"]
    ELSE [fn |-> c.fn, first |-> "none",
          as |-> IF IsClassmethod(c) THEN "classmethod"
                 ELSE IF IsStaticmethod(c) THEN "staticmethod" ELSE "function"]

\* The invocation-ready callable: the function, what is supplied first, and
\* the object returned (a function or partial, or the descriptor unchanged)
resolve_callable(c) ==
    IF is_instance_method(c)
    THEN [fn |-> c.fn, first |-> "self", as |-> "function"]   \* partial(callable, self)
    ELSE IF is_class_method(c)
    THEN [fn |-> c.fn, first |-> "cls", as |-> "function"]    \* partial(__func__, cls)
    ELSE IF is_static_method(c)
    THEN [fn |-> c.fn, first |-> "none", as |-> "function"]   \* callable.__func__
    ELSE [fn |-> c.fn, first |-> "none",                      \* callable
          as |-> IF IsClassmethod(c) THEN "classmethod"
                 ELSE IF IsStaticmethod(c) THEN "staticmethod" ELSE "function"]

\* Calling the resolved callable with one data argument.  A classmethod
\* object is not callable, a staticmethod object calls the function it wraps;
\* a function handed one argument too many or too few raises TypeError.
Invoke(b, ctx, arg) ==
    IF b.as = "classmethod" THEN Raise("TypeError", <<>>)
    ELSE IF b.first # Expects(b.fn) THEN Raise("TypeError", <<>>)
    ELSE Body(b.fn, ctx, arg)

(***************************************************************************)
(* Instructions                                                             *)
(***************************************************************************)
\* A callable as written in the class body
Callable(bind, fn) == [bind |-> bind, fn |-> fn]

\* isinstance(x, str): a bare field name
Direct(name) == [kind |-> "Direct", name |-> name]
\* isinstance(x, tuple): (field name, callable)
Transform(name, c) == [kind |-> "Transform", name |-> name, fn |-> c]
\* anything else: a callable taking the whole record (or the whole group)
Extractor(c) == [kind |-> "Extractor", fn |-> c]

Item(k, v) == [key |-> k, val |-> v]

(***************************************************************************)
(* Construction: schema validation                                          *)
(***************************************************************************)
\* raise ValueError(...): the check that failed and the comma-joined field
\* names of the message, in the order the set yielded them
ConfigError(check, fields) == [check |-> check, fields |-> fields]

\* assert_is_valid_mapper without the check of keys unknown to the target
assert_is_valid_mapper_no_extra ==
    IF mapping = None
    THEN {ConfigError("absent", <<>>)}
    ELSE LET missing_required == get_required_fields(target) \ Keys(mapping)
         IN  IF missing_required # {}
             THEN {ConfigError("missing", s) : s \in Orders(missing_required)}
             ELSE {}

\* BaseModelMapper.assert_is_valid_mapper: the errors it may raise, none
\* when the mapper is valid
assert_is_valid_mapper ==
    IF mapping = None
    THEN {ConfigError("absent", <<>>)}
    ELSE LET required_fields == get_required_fields(target)
             defined_mappings == Keys(mapping)
             missing_required == required_fields \ defined_mappings
             all_fields == Annotations(target)
             extra_fields == defined_mappings \ all_fields
         IN  IF missing_required # {}
             THEN {ConfigError("missing", s) : s \in Orders(missing_required)}
             ELSE IF extra_fields # {}
             THEN {ConfigError("extra", s) : s \in Orders(extra_fields)}
             ELSE {}

\* assert_is_valid_aggregator with one of its checks changed:
\*   "overlap"  the check of doubly defined fields is skipped
\*   "absent"   the check that a dictionary is declared is skipped
\*   "fields"   the missing-field error lists every required field
assert_is_valid_aggregator_but(change) ==
    IF aggregations = None /\ mappings = None /\ change # "absent"
    THEN {ConfigError("absent", <<>>)}
    ELSE LET defined_aggregations ==
                 IF aggregations = None THEN {} ELSE Keys(aggregations)
             defined_mappings == IF mappings = None THEN {} ELSE Keys(mappings)
             double_definitions == defined_mappings \cap defined_aggregations
             all_defined_fields == defined_aggregations \cup defined_mappings
             required_fields == get_required_fields(target)
             missing_required == required_fields \ all_defined_fields
             all_fields == Annotations(target)
             extra_fields == all_defined_fields \ all_fields
         IN  IF double_definitions # {} /\ change # "overlap"
             THEN {ConfigError("overlap", s) : s \in Orders(double_definitions)}
             ELSE IF missing_required # {}
             THEN {ConfigError("missing", s) :
                      s \in Orders(IF change = "fields" THEN required_fields
                                   ELSE missing_required)}
             ELSE IF extra_fields # {}
             THEN {ConfigError("extra", s) : s \in Orders(extra_fields)}
             ELSE {}

assert_is_valid_aggregator_no_overlap == assert_is_valid_aggregator_but("overlap")
assert_is_valid_aggregator_no_absent == assert_is_valid_aggregator_but("absent")
assert_is_valid_aggregator_all_required == assert_is_valid_aggregator_but("fields")

\* assert_is_valid_aggregator checking the required fields before the
\* doubly defined ones
assert_is_valid_aggregator_missing_first ==
    IF aggregations = None /\ mappings = None
    THEN {ConfigError("absent", <<>>)}
    ELSE LET defined_aggregations ==
                 IF aggregations = None THEN {} ELSE Keys(aggregations)
             defined_mappings == IF mappings = None THEN {} ELSE Keys(mappings)
             double_definitions == defined_mappings \cap defined_aggregations
             all_defined_fields == defined_aggregations \cup defined_mappings
             missing_required == get_required_fields(target) \ all_defined_fields
             extra_fields == all_defined_fields \ Annotations(target)
         IN  IF missing_required # {}
             THEN {ConfigError("missing", s) : s \in Orders(missing_required)}
             ELSE IF double_definitions # {}
             THEN {ConfigError("overlap", s) : s \in Orders(double_definitions)}
             ELSE IF extra_fields # {}
             THEN {ConfigError("extra", s) : s \in Orders(extra_fields)}
             ELSE {}

\* assert_is_valid_aggregator refusing an aggregation that is a bare field
\* name
assert_is_valid_aggregator_checking_shapes ==
    IF aggregations = None /\ mappings = None
    THEN {ConfigError("absent", <<>>)}
    ELSE LET defined_aggregations ==
                 IF aggregations = None THEN {} ELSE Keys(aggregations)
             defined_mappings == IF mappings = None THEN {} ELSE Keys(mappings)
             double_definitions == defined_mappings \cap defined_aggregations
             all_defined_fields == defined_aggregations \cup defined_mappings
             missing_required == get_required_fields(target) \ all_defined_fields
             extra_fields == all_defined_fields \ Annotations(target)
             misshapen ==
                 IF aggregations = None THEN {}
                 ELSE {aggregations.items[i].key : i \in
                          {k \in DOMAIN aggregations.items :
                              aggregations.items[k].val.kind = "Direct"}}
         IN  IF misshapen # {}
             THEN {ConfigError("shape", s) : s \in Orders(misshapen)}
             ELSE IF double_definitions # {}
             THEN {ConfigError("overlap", s) : s \in Orders(double_definitions)}
             ELSE IF missing_required # {}
             THEN {ConfigError("missing", s) : s \in Orders(missing_required)}
             ELSE IF extra_fields # {}
             THEN {ConfigError("extra", s) : s \in Orders(extra_fields)}
             ELSE {}

\* BaseModelAggregator.assert_is_valid_aggregator
assert_is_valid_aggregator ==
    IF aggregations = None /\ mappings = None
    THEN {ConfigError("absent", <<>>)}
    ELSE LET defined_aggregations ==
                 IF aggregations = None THEN {} ELSE Keys(aggregations)
             defined_mappings == IF mappings = None THEN {} ELSE Keys(mappings)
             double_definitions == defined_mappings \cap defined_aggregations
             all_defined_fields == defined_aggregations \cup defined_mappings
             required_fields == get_required_fields(target)
             missing_required == required_fields \ all_defined_fields
             all_fields == Annotations(target)
             extra_fields == all_defined_fields \ all_fields
         IN  IF double_definitions # {}
             THEN {ConfigError("overlap", s) : s \in Orders(double_definitions)}
             ELSE IF missing_required # {}
             THEN {ConfigError("missing", s) : s \in Orders(missing_required)}
             ELSE IF extra_fields # {}
             THEN {ConfigError("extra", s) : s \in Orders(extra_fields)}
             ELSE {}

\* __init__ binding the context before it validates
MapperInit_bind_first ==
    /\ kind = "mapper"
    /\ \E t \in Instances :
           /\ pc[t] = "new"
           /\ context' = [context EXCEPT ![t] = ctxArg[t]]
           /\ IF assert_is_valid_mapper # {}
              THEN /\ \E e \in assert_is_valid_mapper :
                          error' = [error EXCEPT ![t] = e]
                   /\ pc' = [pc EXCEPT ![t] = "failed"]
              ELSE /\ pc' = [pc EXCEPT ![t] = "ready"]
                   /\ error' = error
    /\ UNCHANGED <<klass, data, ctxArg, invoked, call, seen>>

\* __init__ storing the context on the class, where every instance reads it
MapperInit_context_on_class ==
    /\ kind = "mapper"
    /\ \E t \in Instances :
           /\ pc[t] = "new"
           /\ IF assert_is_valid_mapper # {}
              THEN /\ \E e \in assert_is_valid_mapper :
                          error' = [error EXCEPT ![t] = e]
                   /\ pc' = [pc EXCEPT ![t] = "failed"]
                   /\ context' = context
              ELSE /\ context' = [u \in Instances |-> ctxArg[t]]
                   /\ pc' = [pc EXCEPT ![t] = "ready"]
                   /\ error' = error
    /\ UNCHANGED <<klass, data, ctxArg, invoked, call, seen>>

\* BaseModelMapper.__init__(context): validate, then bind the context.  A
\* raise leaves no instance behind.
MapperInit ==
    /\ kind = "mapper"
    /\ \E t \in Instances :
           /\ pc[t] = "new"
           /\ IF assert_is_valid_mapper # {}
              THEN /\ \E e \in assert_is_valid_mapper :
                          error' = [error EXCEPT ![t] = e]
                   /\ pc' = [pc EXCEPT ![t] = "failed"]
                   /\ context' = context
              ELSE /\ context' = [context EXCEPT ![t] = ctxArg[t]]
                   /\ pc' = [pc EXCEPT ![t] = "ready"]
                   /\ error' = error
    /\ UNCHANGED <<klass, data, ctxArg, invoked, call, seen>>

\* BaseModelAggregator.__init__(context)
AggregatorInit ==
    /\ kind = "aggregator"
    /\ \E t \in Instances :
           /\ pc[t] = "new"
           /\ IF assert_is_valid_aggregator # {}
              THEN /\ \E e \in assert_is_valid_aggregator :
                          error' = [error EXCEPT ![t] = e]
                   /\ pc' = [pc EXCEPT ![t] = "failed"]
                   /\ context' = context
              ELSE /\ context' = [context EXCEPT ![t] = ctxArg[t]]
                   /\ pc' = [pc EXCEPT ![t] = "ready"]
                   /\ error' = error
    /\ UNCHANGED <<klass, data, ctxArg, invoked, call, seen>>

(***************************************************************************)
(* BaseModelMapper: map and map_list                                        *)
(***************************************************************************)
\* resolve_field returning the field of a (name, fn) pair as it is read
resolve_field_untransformed(self, r, ins) ==
    IF ins.kind = "Direct" THEN GetAttr(r, ins.name)
    ELSE IF ins.kind = "Transform" THEN GetAttr(r, ins.name)
    ELSE Invoke(resolve_callable(ins.fn), self.context, r)

\* BaseModelMapper.resolve_field / BaseModelAggregator.resolve_mapping
resolve_field(self, r, ins) ==
    IF ins.kind = "Direct" THEN GetAttr(r, ins.name)
    ELSE IF ins.kind = "Transform"
    THEN Then(GetAttr(r, ins.name),
              LAMBDA v, t : Invoke(resolve_callable(ins.fn), self.context, v))
    ELSE Invoke(resolve_callable(ins.fn), self.context, r)

\* {target_field_name: self.resolve_field(data, source_field) for ... in
\* self.mapping.items()}: entries are resolved in declaration order and the
\* first raise ends the comprehension
RECURSIVE resolved_map(_, _, _, _, _)
resolved_map(self, items, r, acc, tr) ==
    IF items = <<>> THEN Ok(acc, tr)
    ELSE Then(Traced(resolve_field(self, r, Head(items).val), tr),
              LAMBDA v, t : resolved_map(self, Tail(items), r,
                                         (Head(items).key :> v) @@ acc, t))

\* BaseModelMapper.map(data)
map(self, r) ==
    Then(resolved_map(self, mapping.items, r, <<>>, <<>>),
         LAMBDA kwargs, t : Traced(Construct(target, kwargs), t))

\* map_list collecting its outputs in reverse
RECURSIVE map_list_from_reversed(_, _, _, _)
map_list_from_reversed(self, xs, acc, tr) ==
    IF xs = <<>> THEN Ok(acc, tr)
    ELSE Then(Traced(map(self, Head(xs)), tr),
              LAMBDA obj, t : map_list_from_reversed(self, Tail(xs), <<obj>> \o acc, t))

\* map_list leaving out the records whose mapping raises
RECURSIVE map_list_from_skipping_failures(_, _, _, _)
map_list_from_skipping_failures(self, xs, acc, tr) ==
    IF xs = <<>> THEN Ok(acc, tr)
    ELSE IF ~map(self, Head(xs)).ok
    THEN map_list_from_skipping_failures(self, Tail(xs), acc, tr)
    ELSE Then(Traced(map(self, Head(xs)), tr),
              LAMBDA obj, t : map_list_from_skipping_failures(self, Tail(xs),
                                                              Append(acc, obj), t))

\* BaseModelMapper.map_list(data): [self.map(item) for item in data]
RECURSIVE map_list_from(_, _, _, _)
map_list_from(self, xs, acc, tr) ==
    IF xs = <<>> THEN Ok(acc, tr)
    ELSE Then(Traced(map(self, Head(xs)), tr),
              LAMBDA obj, t : map_list_from(self, Tail(xs), Append(acc, obj), t))

map_list(self, xs) == map_list_from(self, xs, <<>>, <<>>)

\* What a finished call leaves to observe
Returned(op, xs, went) ==
    [op |-> op, input |-> xs, ok |-> went.res.ok,
     exc |-> IF went.res.ok THEN "" ELSE went.res.exc,
     output |-> IF went.res.ok THEN went.res.v ELSE <<>>,
     sorted |-> went.sorted, groups |-> went.groups, trace |-> went.res.trace]

NoCall ==
    [op |-> "", input |-> <<>>, ok |-> TRUE, exc |-> "", output |-> <<>>,
     sorted |-> <<>>, groups |-> <<>>, trace |-> <<>>]

UserCalls(tr) == {i \in DOMAIN tr : tr[i] # "construct"}

\* The instance as its methods see it
Self(t) == [context |-> context[t]]

\* What the first call of map_list / aggregate on an instance produced,
\* and that a later one was made
Remember(t, c) ==
    IF seen[t] = None THEN [seen EXCEPT ![t] = [first |-> c, again |-> FALSE]]
    ELSE [seen EXCEPT ![t].again = TRUE]

\* Calls are followed up to the first repetition of map_list / aggregate
MayCall(t) == pc[t] = "ready" /\ (IF seen[t] = None THEN TRUE ELSE ~seen[t].again)

\* mapper.map(r) on a constructed instance, for the first record of the
\* caller's list
Map ==
    /\ kind = "mapper"
    /\ \E t \in Instances :
           /\ MayCall(t)
           /\ data # <<>>
           /\ call' = [call EXCEPT ![t] =
                  Returned("map", <<Head(data)>>,
                           Went(Then(map(Self(t), Head(data)),
                                     LAMBDA obj, tr : Ok(<<obj>>, tr)),
                                <<>>, <<>>))]
           /\ invoked' = [invoked EXCEPT ![t] = (@ \/ UserCalls(call'[t].trace) # {})]
    /\ UNCHANGED <<klass, data, ctxArg, inst, seen>>

\* map_list leaving the instance without its context
MapList_dropping_context ==
    /\ kind = "mapper"
    /\ \E t \in Instances :
           /\ MayCall(t)
           /\ call' = [call EXCEPT ![t] =
                  Returned("map_list", data, Went(map_list(Self(t), data), <<>>, <<>>))]
           /\ invoked' = [invoked EXCEPT ![t] = (@ \/ UserCalls(call'[t].trace) # {})]
           /\ seen' = Remember(t, call'[t])
           /\ context' = [context EXCEPT ![t] = None]
    /\ UNCHANGED <<klass, data, ctxArg, pc, error>>

\* mapper.map_list(data) on a constructed instance
MapList ==
    /\ kind = "mapper"
    /\ \E t \in Instances :
           /\ MayCall(t)
           /\ call' = [call EXCEPT ![t] =
                  Returned("map_list", data, Went(map_list(Self(t), data), <<>>, <<>>))]
           /\ invoked' = [invoked EXCEPT ![t] = (@ \/ UserCalls(call'[t].trace) # {})]
           /\ seen' = Remember(t, call'[t])
    /\ UNCHANGED <<klass, data, ctxArg, inst>>

(***************************************************************************)
(* BaseModelAggregator: sort, group, resolve, materialize                   *)
(*                                                                          *)
(* Lists hold references: a sorted list or a group is a sequence of         *)
(* positions of the caller's input list.                                    *)
(***************************************************************************)
\* getattr(item, field) if isinstance(field, str)
\* else self.resolve_callable(field)(item)
\* A (name, fn) pair is not a str, resolves to itself and is not callable.
select(self, r, field) ==
    IF field.kind = "Direct" THEN GetAttr(r, field.name)
    ELSE IF field.kind = "Extractor"
    THEN Invoke(resolve_callable(field.fn), self.context, r)
    ELSE Raise("TypeError", <<>>)

\* tuple(... for field in selectors)
RECURSIVE tuple_key(_, _, _, _, _)
tuple_key(self, r, sels, acc, tr) ==
    IF sels = <<>> THEN Ok(acc, tr)
    ELSE Then(Traced(select(self, r, Head(sels)), tr),
              LAMBDA v, t : tuple_key(self, r, Tail(sels), Append(acc, v), t))

\* The key function applied to every item of the list, in list order
RECURSIVE keys_of(_, _, _, _, _, _)
keys_of(self, xs, idxs, sels, acc, tr) ==
    IF idxs = <<>> THEN Ok(acc, tr)
    ELSE Then(tuple_key(self, xs[Head(idxs)], sels, <<>>, tr),
              LAMBDA k, t : keys_of(self, xs, Tail(idxs), sels, Append(acc, k), t))

\* An order on tuples that lets only the first component decide
TupleLess_first_only(k1, k2) ==
    IF k1 = <<>> THEN FALSE ELSE Head(k1) < Head(k2)

\* Python's order on tuples of equal length: the first differing component
\* decides
RECURSIVE TupleLess(_, _)
TupleLess(k1, k2) ==
    IF k1 = <<>> THEN FALSE
    ELSE IF Head(k1) # Head(k2) THEN Head(k1) < Head(k2)
    ELSE TupleLess(Tail(k1), Tail(k2))

\* An insertion that goes before the elements with an equal key
RECURSIVE insert_sorted_before_equal(_, _, _)
insert_sorted_before_equal(srt, i, keys) ==
    IF srt = <<>> THEN <<i>>
    ELSE IF ~TupleLess(keys[Head(srt)], keys[i]) THEN <<i>> \o srt
    ELSE <<Head(srt)>> \o insert_sorted_before_equal(Tail(srt), i, keys)

\* Insert position i into the ordered list: after every element whose key is
\* not greater (sorted() is stable)
RECURSIVE insert_sorted(_, _, _)
insert_sorted(srt, i, keys) ==
    IF srt = <<>> THEN <<i>>
    ELSE IF TupleLess(keys[i], keys[Head(srt)]) THEN <<i>> \o srt
    ELSE <<Head(srt)>> \o insert_sorted(Tail(srt), i, keys)

RECURSIVE sorted_by(_, _, _)
sorted_by(n, keys, srt) ==
    IF Len(srt) = n THEN srt
    ELSE sorted_by(n, keys, insert_sorted(srt, Len(srt) + 1, keys))

Positions(xs) == [i \in 1..Len(xs) |-> i]

\* BaseModelAggregator.sort_data(data): sorted(data, key=...)
sort_data(self, xs) ==
    Then(keys_of(self, xs, Positions(xs), sort_by.items, <<>>, <<>>),
         LAMBDA keys, t : Ok(sorted_by(Len(xs), keys, <<>>), t))

\* Grouping that only extends the group it touched last
append_to_group_last_only(groups, key, i) ==
    IF groups # <<>> /\ groups[Len(groups)].key = key
    THEN [groups EXCEPT ![Len(groups)].members = Append(@, i)]
    ELSE Append(groups, [key |-> key, members |-> <<i>>])

\* Grouping that inserts a new key first
RECURSIVE append_to_group_new_first(_, _, _)
append_to_group_new_first(groups, key, i) ==
    IF \A g \in DOMAIN groups : groups[g].key # key
    THEN <<[key |-> key, members |-> <<i>>]>> \o groups
    ELSE IF Head(groups).key = key
    THEN <<[key |-> key, members |-> Append(Head(groups).members, i)]>>
         \o Tail(groups)
    ELSE <<Head(groups)>> \o append_to_group_new_first(Tail(groups), key, i)

\* groups[group].append(item) on a defaultdict(list): a known key gets the
\* item appended, a new key is inserted last
RECURSIVE append_to_group(_, _, _)
append_to_group(groups, key, i) ==
    IF groups = <<>> THEN <<[key |-> key, members |-> <<i>>]>>
    ELSE IF Head(groups).key = key
    THEN <<[key |-> key, members |-> Append(Head(groups).members, i)]>>
         \o Tail(groups)
    ELSE <<Head(groups)>> \o append_to_group(Tail(groups), key, i)

\* BaseModelAggregator.group_data(data): list(groups.values())
RECURSIVE group_from(_, _, _, _, _)
group_from(self, xs, idxs, groups, tr) ==
    IF idxs = <<>>
    THEN Ok([g \in DOMAIN groups |-> groups[g].members], tr)
    ELSE Then(tuple_key(self, xs[Head(idxs)], group_by.items, <<>>, tr),
              LAMBDA group, t :
                  group_from(self, xs, Tail(idxs),
                             append_to_group(groups, group, Head(idxs)), t))

group_data(self, xs, idxs) == group_from(self, xs, idxs, <<>>, <<>>)

\* The field values collected last record first
RECURSIVE field_list_reversed(_, _, _)
field_list_reversed(rs, name, acc) ==
    IF rs = <<>> THEN Ok(acc, <<>>)
    ELSE Then(GetAttr(Head(rs), name),
              LAMBDA v, t : field_list_reversed(Tail(rs), name, <<v>> \o acc))

\* [getattr(item, source_field) for item in group]
RECURSIVE field_list(_, _, _)
field_list(rs, name, acc) ==
    IF rs = <<>> THEN Ok(acc, <<>>)
    ELSE Then(GetAttr(Head(rs), name),
              LAMBDA v, t : field_list(Tail(rs), name, Append(acc, v)))

RECURSIVE Repeated(_, _)
Repeated(tr, n) == IF n <= 1 THEN tr ELSE tr \o Repeated(tr, n - 1)

\* resolve_aggregation calling the function once for every record of the
\* group
resolve_aggregation_per_record(self, aggregation, rs) ==
    LET once ==
            IF aggregation.kind = "Transform"
            THEN Then(field_list(rs, aggregation.name, <<>>),
                      LAMBDA vs, t :
                          Invoke(resolve_callable(aggregation.fn), self.context, vs))
            ELSE IF aggregation.kind = "Extractor"
            THEN Invoke(resolve_callable(aggregation.fn), self.context, rs)
            ELSE Raise("TypeError", <<>>)
    IN  [once EXCEPT !.trace = Repeated(@, Len(rs))]

\* BaseModelAggregator.resolve_aggregation(aggregation, group).  A bare
\* string is neither a tuple nor callable.
resolve_aggregation(self, aggregation, rs) ==
    IF aggregation.kind = "Transform"
    THEN Then(field_list(rs, aggregation.name, <<>>),
              LAMBDA vs, t : Invoke(resolve_callable(aggregation.fn), self.context, vs))
    ELSE IF aggregation.kind = "Extractor"
    THEN Invoke(resolve_callable(aggregation.fn), self.context, rs)
    ELSE Raise("TypeError", <<>>)

\* {name: self.resolve_aggregation(aggregation, group) for ... in
\* self.aggregations.items()}
RECURSIVE aggregated_fields(_, _, _, _, _)
aggregated_fields(self, items, rs, acc, tr) ==
    IF items = <<>> THEN Ok(acc, tr)
    ELSE Then(Traced(resolve_aggregation(self, Head(items).val, rs), tr),
              LAMBDA v, t : aggregated_fields(self, Tail(items), rs,
                                              (Head(items).key :> v) @@ acc, t))

\* The mapped values collected without repetition
RECURSIVE mapped_list_distinct(_, _, _, _, _)
mapped_list_distinct(self, ins, rs, acc, tr) ==
    IF rs = <<>> THEN Ok(acc, tr)
    ELSE Then(Traced(resolve_field(self, Head(rs), ins), tr),
              LAMBDA v, t : mapped_list_distinct(self, ins, Tail(rs),
                                IF v \in Range(acc) THEN acc ELSE Append(acc, v), t))

\* [self.resolve_mapping(mapping, item) for item in group]
RECURSIVE mapped_list(_, _, _, _, _)
mapped_list(self, ins, rs, acc, tr) ==
    IF rs = <<>> THEN Ok(acc, tr)
    ELSE Then(Traced(resolve_field(self, Head(rs), ins), tr),
              LAMBDA v, t : mapped_list(self, ins, Tail(rs), Append(acc, v), t))

\* {name: [...] for name, mapping in self.mappings.items()}
RECURSIVE mapped_fields(_, _, _, _, _)
mapped_fields(self, items, rs, acc, tr) ==
    IF items = <<>> THEN Ok(acc, tr)
    ELSE Then(mapped_list(self, Head(items).val, rs, <<>>, tr),
              LAMBDA vs, t : mapped_fields(self, Tail(items), rs,
                                           (Head(items).key :> vs) @@ acc, t))

\* BaseModelAggregator.resolve_group_objects(group):
\* {**aggregated_fields, **mapped_fields}
resolve_group_objects(self, rs, tr) ==
    Then(IF aggregations # None
         THEN aggregated_fields(self, aggregations.items, rs, <<>>, tr)
         ELSE Ok(<<>>, tr),
         LAMBDA agg, t :
             Then(IF mappings # None
                  THEN mapped_fields(self, mappings.items, rs, <<>>, t)
                  ELSE Ok(<<>>, t),
                  LAMBDA mapped, u : Ok(mapped @@ agg, u)))

Deref(xs, idxs) == [j \in DOMAIN idxs |-> xs[idxs[j]]]

\* [self.resolve_group_objects(group) for group in groups]
RECURSIVE resolved_objects(_, _, _, _, _)
resolved_objects(self, xs, groups, acc, tr) ==
    IF groups = <<>> THEN Ok(acc, tr)
    ELSE Then(resolve_group_objects(self, Deref(xs, Head(groups)), tr),
              LAMBDA obj, t : resolved_objects(self, xs, Tail(groups), Append(acc, obj), t))

\* [self.target_model()(**obj) for obj in resolved_objects]
RECURSIVE materialize(_, _, _)
materialize(objs, acc, tr) ==
    IF objs = <<>> THEN Ok(acc, tr)
    ELSE Then(Traced(Construct(target, Head(objs)), tr),
              LAMBDA obj, t : materialize(Tail(objs), Append(acc, obj), t))

\* aggregate constructing the target of a group as soon as the group is
\* resolved
RECURSIVE materialized_as_resolved(_, _, _, _, _)
materialized_as_resolved(self, xs, groups, acc, tr) ==
    IF groups = <<>> THEN Ok(acc, tr)
    ELSE Then(resolve_group_objects(self, Deref(xs, Head(groups)), tr),
              LAMBDA kwargs, t :
                  Then(Traced(Construct(target, kwargs), t),
                       LAMBDA obj, u : materialized_as_resolved(
                                           self, xs, Tail(groups), Append(acc, obj), u)))

aggregate_resolve_one_group_at_a_time(self, xs, srt, grp) ==
    IF ~grp.ok THEN Went(grp, srt, <<>>)
    ELSE Went(materialized_as_resolved(self, xs, grp.v, <<>>, grp.trace), srt, grp.v)

\* resolved_objects = [self.resolve_group_objects(group) for group in groups]
\* return [self.target_model()(**obj) for obj in resolved_objects]
aggregate_resolve(self, xs, srt, grp) ==
    IF ~grp.ok THEN Went(grp, srt, <<>>)
    ELSE Went(Then(resolved_objects(self, xs, grp.v, <<>>, grp.trace),
                   LAMBDA objs, t : materialize(objs, <<>>, t)),
              srt, grp.v)

\* aggregate putting every record in a group of its own when no group_by is
\* configured
aggregate_group_singletons(self, xs, srt) ==
    IF ~srt.ok THEN Went(srt, <<>>, <<>>)
    ELSE aggregate_resolve(self, xs, srt.v,
             Traced(IF group_by # None THEN group_data(self, xs, srt.v)
                    ELSE Ok([j \in DOMAIN srt.v |-> <<srt.v[j]>>], <<>>), srt.trace))

\* groups = self.group_data(data) if self.group_by is not None else [data]
aggregate_group(self, xs, srt) ==
    IF ~srt.ok THEN Went(srt, <<>>, <<>>)
    ELSE aggregate_resolve(self, xs, srt.v,
             Traced(IF group_by # None THEN group_data(self, xs, srt.v)
                    ELSE Ok(<<srt.v>>, <<>>), srt.trace))

\* BaseModelAggregator.aggregate(data)
\* if self.sort_by is not None: data = self.sort_data(data)
aggregate(self, xs) ==
    aggregate_group(self, xs, IF sort_by # None THEN sort_data(self, xs)
                        ELSE Ok(Positions(xs), <<>>))

\* aggregate sorting the caller's list in place (data.sort(key=...))
Aggregate_sorting_in_place ==
    /\ kind = "aggregator"
    /\ \E t \in Instances :
           /\ MayCall(t)
           /\ call' = [call EXCEPT ![t] =
                  Returned("aggregate", data, aggregate(Self(t), data))]
           /\ invoked' = [invoked EXCEPT ![t] = (@ \/ UserCalls(call'[t].trace) # {})]
           /\ seen' = Remember(t, call'[t])
           /\ data' = IF sort_by # None /\ Len(call'[t].sorted) = Len(data)
                      THEN Deref(data, call'[t].sorted)
                      ELSE data
    /\ UNCHANGED <<klass, ctxArg, inst>>

\* aggregator.aggregate(data) on a constructed instance
Aggregate ==
    /\ kind = "aggregator"
    /\ \E t \in Instances :
           /\ MayCall(t)
           /\ call' = [call EXCEPT ![t] =
                  Returned("aggregate", data, aggregate(Self(t), data))]
           /\ invoked' = [invoked EXCEPT ![t] = (@ \/ UserCalls(call'[t].trace) # {})]
           /\ seen' = Remember(t, call'[t])
    /\ UNCHANGED <<klass, data, ctxArg, inst>>

(***************************************************************************)
(* The dictionary variant: DictionaryMapper and DictionaryAggregator         *)
(*                                                                          *)
(* The same class attributes, read by a class that has no target model.     *)
(* Source records are dictionaries; an instance of the variant goes through *)
(* "new_dictionary", then "ready_dictionary" or "failed_dictionary".        *)
(***************************************************************************)
\* external_data[name]
GetItem(r, name) ==
    IF name \in DOMAIN r THEN Ok(r[name], <<>>) ELSE Raise("KeyError", <<>>)

\* callable(x) or isinstance(x, classmethod): a function, a staticmethod
\* object or a classmethod object; neither a field name nor a tuple
IsCallable(ins) == ins.kind = "Extractor"

\* DictionaryMapper.assert_is_valid_mapper
assert_is_valid_dictionary_mapper ==
    IF mapping = None THEN {ConfigError("absent", <<>>)} ELSE {}

\* DictionaryAggregator.assert_is_valid_aggregator
assert_is_valid_dictionary_aggregator ==
    IF aggregations = None /\ mappings = None
    THEN {ConfigError("absent", <<>>)}
    ELSE LET defined_aggregations ==
                 IF aggregations = None THEN {} ELSE Keys(aggregations)
             defined_mappings == IF mappings = None THEN {} ELSE Keys(mappings)
             double_definitions == defined_mappings \cap defined_aggregations
         IN  IF double_definitions # {}
             THEN {ConfigError("overlap", s) : s \in Orders(double_definitions)}
             ELSE {}

\* DictionaryMapper.__init__(context)
DictionaryMapperInit ==
    /\ kind = "mapper"
    /\ \E t \in Instances :
           /\ pc[t] = "new_dictionary"
           /\ IF assert_is_valid_dictionary_mapper # {}
              THEN /\ \E e \in assert_is_valid_dictionary_mapper :
                          error' = [error EXCEPT ![t] = e]
                   /\ pc' = [pc EXCEPT ![t] = "failed_dictionary"]
                   /\ context' = context
              ELSE /\ context' = [context EXCEPT ![t] = ctxArg[t]]
                   /\ pc' = [pc EXCEPT ![t] = "ready_dictionary"]
                   /\ error' = error
    /\ UNCHANGED <<klass, data, ctxArg, invoked, call, seen>>

\* DictionaryAggregator.__init__(context)
DictionaryAggregatorInit ==
    /\ kind = "aggregator"
    /\ \E t \in Instances :
           /\ pc[t] = "new_dictionary"
           /\ IF assert_is_valid_dictionary_aggregator # {}
              THEN /\ \E e \in assert_is_valid_dictionary_aggregator :
                          error' = [error EXCEPT ![t] = e]
                   /\ pc' = [pc EXCEPT ![t] = "failed_dictionary"]
                   /\ context' = context
              ELSE /\ context' = [context EXCEPT ![t] = ctxArg[t]]
                   /\ pc' = [pc EXCEPT ![t] = "ready_dictionary"]
                   /\ error' = error
    /\ UNCHANGED <<klass, data, ctxArg, invoked, call, seen>>

\* resolve_field looking every instruction that is no tuple up as a key
dictionary_resolve_field_by_key(self, r, ins) ==
    IF ins.kind = "Transform"
    THEN Then(GetItem(r, ins.name),
              LAMBDA v, t : Invoke(resolve_callable(ins.fn), self.context, v))
    ELSE IF ins.kind = "Direct" THEN GetItem(r, ins.name)
    ELSE Raise("KeyError", <<>>)

\* DictionaryMapper.resolve_field / DictionaryAggregator.resolve_mapping
dictionary_resolve_field(self, r, ins) ==
    IF ins.kind = "Transform"
    THEN Then(GetItem(r, ins.name),
              LAMBDA v, t : Invoke(resolve_callable(ins.fn), self.context, v))
    ELSE IF IsCallable(ins)
    THEN Invoke(resolve_callable(ins.fn), self.context, r)
    ELSE GetItem(r, ins.name)

\* DictionaryMapper.map(data): the dictionary itself is returned
RECURSIVE dictionary_resolved_map(_, _, _, _, _)
dictionary_resolved_map(self, items, r, acc, tr) ==
    IF items = <<>> THEN Ok(acc, tr)
    ELSE Then(Traced(dictionary_resolve_field(self, r, Head(items).val), tr),
              LAMBDA v, t : dictionary_resolved_map(self, Tail(items), r,
                                                    (Head(items).key :> v) @@ acc, t))

dictionary_map(self, r) == dictionary_resolved_map(self, mapping.items, r, <<>>, <<>>)

\* DictionaryMapper.map_list(data): [self.map(item) for item in data]
RECURSIVE dictionary_map_list_from(_, _, _, _)
dictionary_map_list_from(self, xs, acc, tr) ==
    IF xs = <<>> THEN Ok(acc, tr)
    ELSE Then(Traced(dictionary_map(self, Head(xs)), tr),
              LAMBDA obj, t : dictionary_map_list_from(self, Tail(xs), Append(acc, obj), t))

dictionary_map_list(self, xs) == dictionary_map_list_from(self, xs, <<>>, <<>>)

\* self.resolve_callable(field)(item)
\* if callable(field) or isinstance(field, classmethod) else item[field]
\* A (name, fn) pair is a key no dictionary of the caller holds.
dictionary_select(self, r, field) ==
    IF IsCallable(field) THEN Invoke(resolve_callable(field.fn), self.context, r)
    ELSE IF field.kind = "Direct" THEN GetItem(r, field.name)
    ELSE Raise("KeyError", <<>>)

RECURSIVE dictionary_tuple_key(_, _, _, _, _)
dictionary_tuple_key(self, r, sels, acc, tr) ==
    IF sels = <<>> THEN Ok(acc, tr)
    ELSE Then(Traced(dictionary_select(self, r, Head(sels)), tr),
              LAMBDA v, t : dictionary_tuple_key(self, r, Tail(sels), Append(acc, v), t))

RECURSIVE dictionary_keys_of(_, _, _, _, _, _)
dictionary_keys_of(self, xs, idxs, sels, acc, tr) ==
    IF idxs = <<>> THEN Ok(acc, tr)
    ELSE Then(dictionary_tuple_key(self, xs[Head(idxs)], sels, <<>>, tr),
              LAMBDA k, t : dictionary_keys_of(self, xs, Tail(idxs), sels,
                                               Append(acc, k), t))

\* DictionaryAggregator.sort_data(data): sorted(data, key=...)
dictionary_sort_data(self, xs) ==
    Then(dictionary_keys_of(self, xs, Positions(xs), sort_by.items, <<>>, <<>>),
         LAMBDA keys, t : Ok(sorted_by(Len(xs), keys, <<>>), t))

\* DictionaryAggregator.group_data(data): list(groups.values())
RECURSIVE dictionary_group_from(_, _, _, _, _)
dictionary_group_from(self, xs, idxs, groups, tr) ==
    IF idxs = <<>>
    THEN Ok([g \in DOMAIN groups |-> groups[g].members], tr)
    ELSE Then(dictionary_tuple_key(self, xs[Head(idxs)], group_by.items, <<>>, tr),
              LAMBDA group, t :
                  dictionary_group_from(self, xs, Tail(idxs),
                                        append_to_group(groups, group, Head(idxs)), t))

dictionary_group_data(self, xs, idxs) == dictionary_group_from(self, xs, idxs, <<>>, <<>>)

\* [item[source_field] for item in group]
RECURSIVE dictionary_field_list(_, _, _)
dictionary_field_list(rs, name, acc) ==
    IF rs = <<>> THEN Ok(acc, <<>>)
    ELSE Then(GetItem(Head(rs), name),
              LAMBDA v, t : dictionary_field_list(Tail(rs), name, Append(acc, v)))

\* DictionaryAggregator.resolve_aggregation(aggregation, group)
dictionary_resolve_aggregation(self, aggregation, rs) ==
    IF aggregation.kind = "Transform"
    THEN Then(dictionary_field_list(rs, aggregation.name, <<>>),
              LAMBDA vs, t : Invoke(resolve_callable(aggregation.fn), self.context, vs))
    ELSE IF aggregation.kind = "Extractor"
    THEN Invoke(resolve_callable(aggregation.fn), self.context, rs)
    ELSE Raise("TypeError", <<>>)

RECURSIVE dictionary_aggregated_fields(_, _, _, _, _)
dictionary_aggregated_fields(self, items, rs, acc, tr) ==
    IF items = <<>> THEN Ok(acc, tr)
    ELSE Then(Traced(dictionary_resolve_aggregation(self, Head(items).val, rs), tr),
              LAMBDA v, t : dictionary_aggregated_fields(self, Tail(items), rs,
                                                         (Head(items).key :> v) @@ acc, t))

RECURSIVE dictionary_mapped_list(_, _, _, _, _)
dictionary_mapped_list(self, ins, rs, acc, tr) ==
    IF rs = <<>> THEN Ok(acc, tr)
    ELSE Then(Traced(dictionary_resolve_field(self, Head(rs), ins), tr),
              LAMBDA v, t : dictionary_mapped_list(self, ins, Tail(rs), Append(acc, v), t))

RECURSIVE dictionary_mapped_fields(_, _, _, _, _)
dictionary_mapped_fields(self, items, rs, acc, tr) ==
    IF items = <<>> THEN Ok(acc, tr)
    ELSE Then(dictionary_mapped_list(self, Head(items).val, rs, <<>>, tr),
              LAMBDA vs, t : dictionary_mapped_fields(self, Tail(items), rs,
                                                      (Head(items).key :> vs) @@ acc, t))

\* DictionaryAggregator.resolve_group_objects(group):
\* {**aggregated_fields, **mapped_fields}
dictionary_resolve_group_objects(self, rs, tr) ==
    Then(IF aggregations # None
         THEN dictionary_aggregated_fields(self, aggregations.items, rs, <<>>, tr)
         ELSE Ok(<<>>, tr),
         LAMBDA agg, t :
             Then(IF mappings # None
                  THEN dictionary_mapped_fields(self, mappings.items, rs, <<>>, t)
                  ELSE Ok(<<>>, t),
                  LAMBDA mapped, u : Ok(mapped @@ agg, u)))

\* return [self.resolve_group_objects(group) for group in groups]
RECURSIVE dictionary_resolved_objects(_, _, _, _, _)
dictionary_resolved_objects(self, xs, groups, acc, tr) ==
    IF groups = <<>> THEN Ok(acc, tr)
    ELSE Then(dictionary_resolve_group_objects(self, Deref(xs, Head(groups)), tr),
              LAMBDA obj, t : dictionary_resolved_objects(self, xs, Tail(groups),
                                                          Append(acc, obj), t))

\* groups = self.group_data(data) if self.group_by is not None else [data]
dictionary_aggregate_group(self, xs, srt) ==
    IF ~srt.ok THEN Went(srt, <<>>, <<>>)
    ELSE LET grp == Traced(IF group_by # None
                           THEN dictionary_group_data(self, xs, srt.v)
                           ELSE Ok(<<srt.v>>, <<>>), srt.trace)
         IN  IF ~grp.ok THEN Went(grp, srt.v, <<>>)
             ELSE Went(dictionary_resolved_objects(self, xs, grp.v, <<>>, grp.trace),
                       srt.v, grp.v)

\* DictionaryAggregator.aggregate(data)
dictionary_aggregate(self, xs) ==
    dictionary_aggregate_group(self, xs,
        IF sort_by # None THEN dictionary_sort_data(self, xs)
        ELSE Ok(Positions(xs), <<>>))

MayCallDictionary(t) ==
    pc[t] = "ready_dictionary" /\ (IF seen[t] = None THEN TRUE ELSE ~seen[t].again)

\* mapper.map(r) on an instance of the dictionary variant
DictionaryMap ==
    /\ kind = "mapper"
    /\ \E t \in Instances :
           /\ MayCallDictionary(t)
           /\ data # <<>>
           /\ call' = [call EXCEPT ![t] =
                  Returned("map", <<Head(data)>>,
                           Went(Then(dictionary_map(Self(t), Head(data)),
                                     LAMBDA obj, tr : Ok(<<obj>>, tr)),
                                <<>>, <<>>))]
           /\ invoked' = [invoked EXCEPT ![t] = (@ \/ UserCalls(call'[t].trace) # {})]
    /\ UNCHANGED <<klass, data, ctxArg, inst, seen>>

\* mapper.map_list(data) on an instance of the dictionary variant
DictionaryMapList ==
    /\ kind = "mapper"
    /\ \E t \in Instances :
           /\ MayCallDictionary(t)
           /\ call' = [call EXCEPT ![t] =
                  Returned("map_list", data,
                           Went(dictionary_map_list(Self(t), data), <<>>, <<>>))]
           /\ invoked' = [invoked EXCEPT ![t] = (@ \/ UserCalls(call'[t].trace) # {})]
           /\ seen' = Remember(t, call'[t])
    /\ UNCHANGED <<klass, data, ctxArg, inst>>

\* aggregator.aggregate(data) on an instance of the dictionary variant
DictionaryAggregate ==
    /\ kind = "aggregator"
    /\ \E t \in Instances :
           /\ MayCallDictionary(t)
           /\ call' = [call EXCEPT ![t] =
                  Returned("aggregate", data, dictionary_aggregate(Self(t), data))]
           /\ invoked' = [invoked EXCEPT ![t] = (@ \/ UserCalls(call'[t].trace) # {})]
           /\ seen' = Remember(t, call'[t])
    /\ UNCHANGED <<klass, data, ctxArg, inst>>

(***************************************************************************)
(* Classes and inputs explored                                              *)
(***************************************************************************)
\* Input lists of at most MaxLen source records
Inputs == UNION {[1..n -> Records] : n \in 0..MaxLen}

\* The dictionary that declares every key of K, in the order of `order`,
\* with the instruction ins
DictOf(order, K, ins) ==
    LET ks == SelectSeq(order, LAMBDA k : k \in K)
    IN  Dict([i \in DOMAIN ks |-> Item(ks[i], ins)])

KeyOrder == <<"id", "name", "extra">>

\* Nothing has been constructed or called yet
Unconstructed ==
    /\ error = [t \in Instances |-> None]
    /\ context = [t \in Instances |-> None]
    /\ invoked = [t \in Instances |-> FALSE]
    /\ call = [t \in Instances |-> NoCall]
    /\ seen = [t \in Instances |-> None]

\* The caller constructs one instance, with the context c
OneInstance(c) ==
    /\ pc = [t \in Instances |-> IF t = 1 THEN "new" ELSE "none"]
    /\ ctxArg = [t \in Instances |-> IF t = 1 THEN c ELSE None]
    /\ Unconstructed

\* The caller constructs two instances of the class, with the contexts c1
\* and c2
TwoInstances(c1, c2) ==
    /\ pc = [t \in Instances |-> "new"]
    /\ ctxArg = [t \in Instances |-> IF t = 1 THEN c1 ELSE c2]
    /\ Unconstructed

(***************************************************************************)
(* Construction of any mapper or aggregator class over any target schema    *)
(***************************************************************************)
ProbeInput == <<[a |-> 1, b |-> 0], [a |-> 0, b |-> 1]>>

ProbeMappings ==
    {Direct("a"), Transform("a", Callable("instance", "scale"))}

InitConstruct ==
    /\ kind \in {"mapper", "aggregator"}
    /\ target \in Schemas
    /\ mapping \in
         IF kind = "mapper"
         THEN {None} \cup {DictOf(KeyOrder, K, ins) :
                               K \in SUBSET KeyNames, ins \in ProbeMappings}
         ELSE {None}
    /\ mappings \in
         IF kind = "aggregator"
         THEN {None} \cup {DictOf(KeyOrder, K, Direct("a")) : K \in SUBSET KeyNames}
         ELSE {None}
    /\ aggregations \in
         IF kind = "aggregator"
         THEN {None} \cup {DictOf(KeyOrder, K, Transform("b", Callable("free", "total"))) :
                               K \in SUBSET KeyNames}
         ELSE {None}
    /\ group_by \in
         IF kind = "aggregator" THEN {None, Tuple(<<Direct("a")>>)} ELSE {None}
    /\ sort_by = None
    /\ data = ProbeInput
    /\ \E c \in {None, [factor |-> 2]} : OneInstance(c)

NextConstruct ==
    \/ MapperInit
    \/ AggregatorInit
    \/ Map
    \/ MapList
    \/ Aggregate

SpecConstruct == InitConstruct /\ [][NextConstruct]_vars

(***************************************************************************)
(* Mapper classes called on every input list                                *)
(***************************************************************************)
\* class Target(BaseModel): id: int; name: str | None = None
PlainTarget ==
    [id |-> [type |-> "plain", hasDefault |-> FALSE, inherited |-> FALSE],
     name |-> [type |-> "optional", hasDefault |-> TRUE, inherited |-> FALSE]]

\* class Target(BaseModel): id: int; name: str | None
NullableTarget ==
    [id |-> [type |-> "plain", hasDefault |-> FALSE, inherited |-> FALSE],
     name |-> [type |-> "optional", hasDefault |-> FALSE, inherited |-> FALSE]]

ByField == Dict(<<Item("id", Direct("a"))>>)
ByFunctions ==
    Dict(<<Item("id", Transform("a", Callable("free", "fail0"))),
           Item("name", Extractor(Callable("free", "sum_ab")))>>)
ByInstanceMethod ==
    Dict(<<Item("name", Direct("b")),
           Item("id", Transform("b", Callable("instance", "scale")))>>)
ByClassAndStaticMethod ==
    Dict(<<Item("id", Transform("a", Callable("class", "times_factor"))),
           Item("name", Transform("b", Callable("static", "inc")))>>)
ByUnknownField == Dict(<<Item("id", Direct("a")), Item("name", Direct("c"))>>)

MapperClass(t, m, c) == [target |-> t, mapping |-> m, ctxArg |-> c]

MapperClasses ==
    {MapperClass(PlainTarget, m, None) :
        m \in {ByField, ByFunctions, ByClassAndStaticMethod, ByUnknownField}}
    \cup {MapperClass(PlainTarget, ByInstanceMethod, c) : c \in {None} \cup Contexts}
    \cup {MapperClass(NullableTarget, m, None) : m \in {ByField, ByFunctions}}

\* One instance of a mapper class, called on a list of D
MapperOn(D) ==
    /\ kind = "mapper"
    /\ \E c \in MapperClasses :
           /\ target = c.target
           /\ mapping = c.mapping
           /\ OneInstance(c.ctxArg)
    /\ mappings = None
    /\ aggregations = None
    /\ group_by = None
    /\ sort_by = None
    /\ data \in D

InitMapper == MapperOn(Inputs)

NextMapper ==
    \/ MapperInit
    \/ Map
    \/ MapList

SpecMapper == InitMapper /\ [][NextMapper]_vars

(***************************************************************************)
(* Aggregator classes called on every input list                            *)
(***************************************************************************)
MappedAndAggregated ==
    [mappings |-> Dict(<<Item("name", Extractor(Callable("free", "sum_ab")))>>),
     aggregations |-> Dict(<<Item("id", Transform("b", Callable("free", "first")))>>)]

AggregatedOnly ==
    [mappings |-> None,
     aggregations |-> Dict(<<Item("id", Extractor(Callable("free", "count"))),
                             Item("name", Transform("a", Callable("free", "total")))>>)]

AggregatorFields == {MappedAndAggregated, AggregatedOnly}

GroupBys ==
    {None,
     Tuple(<<>>),
     Tuple(<<Direct("a")>>),
     Tuple(<<Direct("b"), Extractor(Callable("static", "sum_ab"))>>),
     Tuple(<<Direct("c")>>)}

SortBys ==
    {None,
     Tuple(<<Direct("b")>>),
     Tuple(<<Extractor(Callable("free", "sum_ab")), Direct("a")>>),
     Tuple(<<Transform("a", Callable("free", "inc"))>>)}

\* every group_by unsorted and sorted by one field; the sort_by of several
\* components or of a transformed field with the group_by that reads fields
AggregatorOrders ==
    {[group_by |-> g, sort_by |-> s] :
        g \in GroupBys, s \in {None, Tuple(<<Direct("b")>>)}}
    \cup
    {[group_by |-> g, sort_by |-> s] :
        g \in {Tuple(<<Direct("a")>>),
               Tuple(<<Direct("b"), Extractor(Callable("static", "sum_ab"))>>)},
        s \in SortBys}

\* no group_by, one that reads a field and one of two components, each
\* unsorted and sorted by one field
ResolveOrders ==
    {[group_by |-> g, sort_by |-> s] :
        g \in {None,
               Tuple(<<Direct("a")>>),
               Tuple(<<Direct("b"), Extractor(Callable("static", "sum_ab"))>>)},
        s \in {None, Tuple(<<Direct("b")>>)}}

\* One instance of an aggregator class with the fields of one of F and the
\* order of one of O, called on a list of D
AggregatorOn(F, O, D) ==
    /\ kind = "aggregator"
    /\ target = PlainTarget
    /\ mapping = None
    /\ \E f \in F :
           /\ mappings = f.mappings
           /\ aggregations = f.aggregations
    /\ \E o \in O :
           /\ group_by = o.group_by
           /\ sort_by = o.sort_by
    /\ data \in D
    /\ OneInstance(None)

\* Every order, on the class that has mappings and aggregations
InitAggregate == AggregatorOn({MappedAndAggregated}, AggregatorOrders, Inputs)

NextAggregate ==
    \/ AggregatorInit
    \/ Aggregate

SpecAggregate == InitAggregate /\ [][NextAggregate]_vars

\* Both classes, on the orders that let every list be sorted and grouped
InitResolve == AggregatorOn(AggregatorFields, ResolveOrders, Inputs)

SpecResolve == InitResolve /\ [][NextAggregate]_vars

(***************************************************************************)
(* Mapper and aggregator classes called on the shorter input lists          *)
(***************************************************************************)
ShortInputs == UNION {[1..n -> Records] : n \in 0..(MaxLen - 1)}

InitCalls == MapperOn(ShortInputs) \/ AggregatorOn(AggregatorFields, AggregatorOrders, ShortInputs)

SpecCalls == InitCalls /\ [][NextConstruct]_vars

(***************************************************************************)
(* Calls whose target construction may fail                                 *)
(***************************************************************************)
\* class Target(BaseModel): id: int; name: list[int]; extra: str | None
SparseTarget ==
    [id |-> [type |-> "plain", hasDefault |-> FALSE, inherited |-> FALSE],
     name |-> [type |-> "plain", hasDefault |-> FALSE, inherited |-> FALSE],
     extra |-> [type |-> "optional", hasDefault |-> FALSE, inherited |-> FALSE]]

InitOrdering ==
    \/ MapperOn(ShortInputs)
    \/ /\ kind = "aggregator"
       /\ target \in {PlainTarget, SparseTarget}
       /\ mapping = None
       /\ \E f \in AggregatorFields :
              /\ mappings = f.mappings
              /\ aggregations = f.aggregations
       /\ \E o \in AggregatorOrders :
              /\ group_by = o.group_by
              /\ sort_by = o.sort_by
       /\ data \in ShortInputs
       /\ OneInstance(None)

SpecOrdering == InitOrdering /\ [][NextConstruct]_vars

(***************************************************************************)
(* Classes that differ in their instruction values, orders and contexts     *)
(***************************************************************************)
OutcomeTargets == {PlainTarget, NullableTarget, SparseTarget}

\* a field name, a (name, function) pair, a function
OutcomeMappings ==
    {Direct("a"),
     Transform("a", Callable("instance", "scale")),
     Extractor(Callable("free", "sum_ab"))}

\* a (name, function) pair, a function, and a bare field name, which
\* resolve_aggregation cannot resolve
OutcomeAggregations ==
    {Transform("b", Callable("free", "total")),
     Extractor(Callable("free", "count")),
     Direct("a")}

InitOutcome ==
    /\ kind \in {"mapper", "aggregator"}
    /\ target \in OutcomeTargets
    /\ mapping \in
         IF kind = "mapper"
         THEN {None} \cup {DictOf(KeyOrder, K, ins) :
                               K \in SUBSET KeyNames, ins \in OutcomeMappings}
         ELSE {None}
    /\ mappings \in
         IF kind = "aggregator"
         THEN {None} \cup {DictOf(KeyOrder, K, ins) :
                               K \in SUBSET KeyNames, ins \in OutcomeMappings \ {Direct("a")}}
         ELSE {None}
    /\ aggregations \in
         IF kind = "aggregator"
         THEN {None} \cup {DictOf(KeyOrder, K, ins) :
                               K \in SUBSET KeyNames, ins \in OutcomeAggregations}
         ELSE {None}
    /\ group_by \in
         IF kind = "aggregator"
         THEN {None, Tuple(<<>>), Tuple(<<Direct("a")>>)}
         ELSE {None}
    /\ sort_by \in
         IF kind = "aggregator" THEN {None, Tuple(<<Direct("b")>>)} ELSE {None}
    /\ data = ProbeInput
    /\ \E c \in {None, [factor |-> 2]} : OneInstance(c)

SpecOutcome == InitOutcome /\ [][NextConstruct]_vars

(***************************************************************************)
(* Aggregators whose group_by or sort_by is the empty tuple                 *)
(***************************************************************************)
EmptyTupleOrders ==
    {[group_by |-> g, sort_by |-> s] :
        g \in {None, Tuple(<<>>), Tuple(<<Direct("a")>>)},
        s \in {None, Tuple(<<>>), Tuple(<<Direct("b")>>)}}

InitEmptyTuples == AggregatorOn(AggregatorFields, EmptyTupleOrders, ShortInputs)

SpecEmptyTuples == InitEmptyTuples /\ [][NextAggregate]_vars

(***************************************************************************)
(* The same classes as dictionary variants, called on the shorter lists     *)
(***************************************************************************)
\* The caller constructs one instance of the dictionary variant
OneDictionaryInstance(c) ==
    /\ pc = [t \in Instances |-> IF t = 1 THEN "new_dictionary" ELSE "none"]
    /\ ctxArg = [t \in Instances |-> IF t = 1 THEN c ELSE None]
    /\ Unconstructed

InitDictionary ==
    /\ kind \in {"mapper", "aggregator"}
    /\ IF kind = "mapper"
       THEN /\ \E c \in MapperClasses :
                   /\ target = c.target
                   /\ mapping = c.mapping
                   /\ OneDictionaryInstance(c.ctxArg)
            /\ mappings = None
            /\ aggregations = None
            /\ group_by = None
            /\ sort_by = None
       ELSE /\ target = PlainTarget
            /\ mapping = None
            /\ \E f \in AggregatorFields :
                   /\ mappings = f.mappings
                   /\ aggregations = f.aggregations
            /\ \E o \in AggregatorOrders :
                   /\ group_by = o.group_by
                   /\ sort_by = o.sort_by
            /\ OneDictionaryInstance(None)
    /\ data \in ShortInputs

NextDictionary ==
    \/ DictionaryMapperInit
    \/ DictionaryAggregatorInit
    \/ DictionaryMap
    \/ DictionaryMapList
    \/ DictionaryAggregate

SpecDictionary == InitDictionary /\ [][NextDictionary]_vars

(***************************************************************************)
(* Two instances of a class whose instruction uses a callable of any kind   *)
(***************************************************************************)
\* The functions a class may use: one that reads self.context, one that
\* reads a constant of cls, one that takes its argument only
BoundCallables ==
    {Callable(b, fn) : b \in Binds, fn \in {"scale", "times_factor", "inc"}}

InstanceInputs == {ProbeInput, <<[a |-> 1, b |-> 1]>>}

InitInstances ==
    /\ kind \in {"mapper", "aggregator"}
    /\ target = PlainTarget
    /\ \E c \in BoundCallables :
           IF kind = "mapper"
           THEN /\ mapping = Dict(<<Item("id", Transform("a", c))>>)
                /\ mappings = None
                /\ aggregations = None
           ELSE /\ mapping = None
                /\ mappings = Dict(<<Item("name", Transform("a", c))>>)
                /\ aggregations =
                       Dict(<<Item("id", Transform("b", Callable("free", "total")))>>)
    /\ group_by = None
    /\ sort_by = None
    /\ data \in InstanceInputs
    /\ \E c1, c2 \in {None} \cup Contexts : TwoInstances(c1, c2)

NextInstances ==
    \/ MapperInit
    \/ AggregatorInit
    \/ Map
    \/ MapList
    \/ Aggregate

SpecInstances == InitInstances /\ [][NextInstances]_vars

(***************************************************************************)
(* Properties of construction (SpecConstruct)                               *)
(***************************************************************************)
\* The key set a dictionary attribute declares, empty when it is absent
KeysOrNone(d) == IF d = None THEN {} ELSE Keys(d)

\* The declared field set D of the class
Declared ==
    IF kind = "mapper" THEN KeysOrNone(mapping)
    ELSE KeysOrNone(mappings) \cup KeysOrNone(aggregations)

\* No configuration dictionary is declared at all
Absent ==
    IF kind = "mapper" THEN mapping = None
    ELSE mappings = None /\ aggregations = None

\* The construction of instance t was attempted, succeeded, failed
Attempted(t) == pc[t] \in {"ready", "failed"}
Constructed(t) == pc[t] = "ready"
Rejected(t) == pc[t] = "failed"

\* R <= D <= A for the validator's required set R and known set A
Covers(D) ==
    /\ get_required_fields(target) \subseteq D
    /\ D \subseteq Annotations(target)

C3_EmptyInstructionSetRejected_Original ==
    \A t \in Instances : (Attempted(t) /\ Declared = {}) => Rejected(t)

\* C3 amended: a class that declares no configuration dictionary is rejected
\* for every target schema; a class whose dictionaries are present but empty
\* is rejected exactly when the target has a required field, and is
\* constructed for a target without one.
C3_AbsentConfigurationRejected ==
    \A t \in Instances :
        (Attempted(t) /\ Declared = {}) =>
            IF Absent THEN Rejected(t) /\ error[t].check = "absent"
            ELSE /\ Rejected(t) <=> get_required_fields(target) # {}
                 /\ Constructed(t) <=> get_required_fields(target) = {}

\* A class rejected because it declares no dictionary although its target
\* requires nothing
C3_Witness ==
    \E t \in Instances :
        /\ Absent /\ Rejected(t)
        /\ get_required_fields(target) = {}

\* C4: once construction succeeded, no call fails at target construction
\* because a field the schema refuses to omit received no value.
C4_MandatoryFieldsDeclared ==
    \A t \in Instances :
        Constructed(t) =>
            ~ /\ call[t].exc = "ValidationError"
              /\ Mandatory(target) \ Declared # {}

\* The field names the configuration error of instance t carries
Carried(t) == Range(error[t].fields)

C6_FailFast ==
    \A t \in Instances :
        /\ ~Constructed(t) =>
               /\ context[t] = None
               /\ ~invoked[t]
               /\ call[t] = NoCall
        /\ Rejected(t) <=> error[t] # None
        /\ Constructed(t) =>
               /\ kind = "mapper" => assert_is_valid_mapper = {}
               /\ kind = "aggregator" => assert_is_valid_aggregator = {}
        /\ call[t] # NoCall => Constructed(t) /\ error[t] = None

\* A mapper handed a context whose construction was rejected
C6_Witness ==
    \E t \in Instances :
        /\ kind = "mapper" /\ Rejected(t)
        /\ ctxArg[t] # None

(***************************************************************************)
(* Properties of map_list (SpecMapper)                                      *)
(***************************************************************************)
\* C7: map_list(xs) returns when map returns for every record of xs, and
\* then its output has the length of xs and its i-th element is map(xs[i]);
\* the empty list gives the empty list.
C7_MapListCardinality ==
    \A t \in Instances :
        call[t].op = "map_list" =>
            IF \A i \in DOMAIN call[t].input : map(Self(t), call[t].input[i]).ok
            THEN /\ call[t].ok
                 /\ Len(call[t].output) = Len(call[t].input)
                 /\ \A i \in DOMAIN call[t].input :
                        call[t].output[i] = map(Self(t), call[t].input[i]).v
            ELSE ~call[t].ok

\* map_list returned different targets for a list of three records
C7_Witness ==
    \E t \in Instances :
        /\ call[t].op = "map_list" /\ call[t].ok
        /\ Len(call[t].input) = 3
        /\ call[t].output[1] # call[t].output[2]
        /\ call[t].output[1] # call[t].output[3]

(***************************************************************************)
(* Properties of aggregate (SpecAggregate)                                  *)
(***************************************************************************)
\* The value a selector reads off the record at position i of the input of
\* the call on instance t
Selected(t, i, field) == select(Self(t), call[t].input[i], field).v

\* The key tuple of the record at position i: one component per selector
KeyAt(t, i, sels) ==
    [c \in DOMAIN sels.items |-> Selected(t, i, sels.items[c])]

\* Lexicographic order: k1 is not after k2
LexLeq(k1, k2) ==
    \/ k1 = k2
    \/ \E c \in DOMAIN k1 :
           /\ k1[c] < k2[c]
           /\ \A d \in 1..(c - 1) : k1[d] = k2[d]

\* s holds every position of the input exactly once
IsPermutation(t, s) ==
    /\ Len(s) = Len(call[t].input)
    /\ \A i \in DOMAIN call[t].input : \E p \in DOMAIN s : s[p] = i

\* The place of input position i in the sequence s
PlaceIn(s, i) == CHOOSE p \in DOMAIN s : s[p] = i

\* The places (group, rank) at which position i sits in the groups
PlacesOf(t, i) ==
    {<<g, j>> \in (DOMAIN call[t].groups) \X (1..Len(call[t].input)) :
        j \in DOMAIN call[t].groups[g] /\ call[t].groups[g][j] = i}

GroupOf(t, i) == (CHOOSE pl \in PlacesOf(t, i) : TRUE)[1]

RECURSIVE Flatten(_)
Flatten(ss) == IF ss = <<>> THEN <<>> ELSE Head(ss) \o Flatten(Tail(ss))

\* aggregate got as far as sorting, and as far as grouping
Sorted(t) == call[t].op = "aggregate" /\ Len(call[t].sorted) = Len(call[t].input)
Grouped(t) ==
    /\ Sorted(t)
    /\ group_by # None
    /\ call[t].ok \/ call[t].groups # <<>>

\* C8: with group_by configured the groups partition the input: every record
\* is in exactly one group, no group is empty, two records share a group if
\* and only if their key tuples (one component per selector) are equal, and
\* the groups concatenated are a permutation of the sorted list.
C8_GroupingPartition ==
    \A t \in Instances :
        Grouped(t) =>
            /\ \A i \in DOMAIN call[t].input : Cardinality(PlacesOf(t, i)) = 1
            /\ \A g \in DOMAIN call[t].groups : call[t].groups[g] # <<>>
            /\ \A group \in {[i \in DOMAIN call[t].input |-> GroupOf(t, i)]},
                  key \in {[i \in DOMAIN call[t].input |-> KeyAt(t, i, group_by)]} :
                   /\ \A i, j \in DOMAIN call[t].input :
                          (group[i] = group[j]) <=> (key[i] = key[j])
                   /\ \A i \in DOMAIN call[t].input :
                          Len(key[i]) = Len(group_by.items)
            /\ IsPermutation(t, Flatten(call[t].groups))
            /\ Range(Flatten(call[t].groups)) = Range(call[t].sorted)

\* Records with the same key met again after a record with another key
C8_Witness ==
    \E t \in Instances :
        /\ Grouped(t) /\ call[t].ok
        /\ Len(call[t].groups) = 2
        /\ call[t].groups[1] = <<1, 3>>
        /\ call[t].groups[2] = <<2>>

\* C9: with group_by configured aggregate emits one target per distinct key,
\* groups are in the order in which their first members appear in the
\* sequence grouped (the sorted list), and inside a group records keep the
\* order of that sequence.
C9_GroupEmissionOrder ==
    \A t \in Instances :
        Grouped(t) =>
            /\ call[t].ok =>
                   /\ Len(call[t].output) = Len(call[t].groups)
                   /\ Len(call[t].output) =
                          Cardinality({KeyAt(t, i, group_by) :
                                          i \in DOMAIN call[t].input})
            /\ \A g, h \in DOMAIN call[t].groups :
                   g < h => PlaceIn(call[t].sorted, call[t].groups[g][1])
                                < PlaceIn(call[t].sorted, call[t].groups[h][1])
            /\ \A g \in DOMAIN call[t].groups :
                   \A j, k \in DOMAIN call[t].groups[g] :
                       j < k => PlaceIn(call[t].sorted, call[t].groups[g][j])
                                    < PlaceIn(call[t].sorted, call[t].groups[g][k])

\* Sorting moved a later record to the front, and its group is emitted first
C9_Witness ==
    \E t \in Instances :
        /\ Grouped(t) /\ call[t].ok
        /\ sort_by # None
        /\ Len(call[t].groups) = 2
        /\ call[t].groups[1] = <<3, 1>>
        /\ call[t].groups[2] = <<2>>

\* C10: the sequence aggregate groups and resolves is a permutation of the
\* input; with sort_by configured its records are in non-decreasing
\* lexicographic order of the key tuples built from the sort_by selectors in
\* their declared order; without sort_by it is the input order.
C10_SortOrdering ==
    \A t \in Instances :
        Sorted(t) =>
            /\ IsPermutation(t, call[t].sorted)
            /\ sort_by # None =>
                   \A key \in {[p \in DOMAIN call[t].sorted |->
                                  KeyAt(t, call[t].sorted[p], sort_by)]} :
                       \A p, q \in DOMAIN call[t].sorted :
                           p < q => LexLeq(key[p], key[q])
            /\ sort_by = None => call[t].sorted = Positions(call[t].input)

\* A tie on the first selector was decided by the second
C10_Witness ==
    \E t \in Instances :
        /\ Sorted(t) /\ call[t].ok
        /\ sort_by # None
        /\ Len(sort_by.items) = 2
        /\ call[t].sorted = <<3, 2, 1>>
        /\ KeyAt(t, 1, sort_by)[1] = KeyAt(t, 2, sort_by)[1]

\* C11: sorting is stable.  Of two input records with equal sort_by key
\* tuples the one that comes first in the input comes first in the sorted
\* sequence, and so first in the group that holds both.
C11_SortStability ==
    \A t \in Instances :
        (Sorted(t) /\ sort_by # None) =>
            \A key \in {[i \in DOMAIN call[t].input |-> KeyAt(t, i, sort_by)]} :
            \A i, j \in DOMAIN call[t].input :
                (i < j /\ key[i] = key[j]) =>
                    /\ PlaceIn(call[t].sorted, i) < PlaceIn(call[t].sorted, j)
                    /\ \A g \in DOMAIN call[t].groups :
                           \A m, n \in DOMAIN call[t].groups[g] :
                               (call[t].groups[g][m] = i /\ call[t].groups[g][n] = j)
                                   => m < n

\* Two records with equal keys were moved in front of the first record and
\* share a group
C11_Witness ==
    \E t \in Instances :
        /\ Sorted(t) /\ call[t].ok
        /\ sort_by # None
        /\ call[t].sorted = <<2, 3, 1>>
        /\ KeyAt(t, 2, sort_by) = KeyAt(t, 3, sort_by)
        /\ \E g \in DOMAIN call[t].groups : call[t].groups[g] = <<2, 3>>

\* C12: aggregate([]) on a constructed aggregator returns the empty list:
\* no group is formed, no target is constructed and no user function runs.
C12_EmptyInputEmptyOutput ==
    \A t \in Instances :
        (call[t].op = "aggregate" /\ call[t].input = <<>>) =>
            /\ call[t].ok
            /\ call[t].output = <<>>
            /\ call[t].groups = <<>>
            /\ call[t].trace = <<>>

\* C13: without group_by, aggregate resolves one implicit group that holds
\* every input record in the order of the (possibly sorted) sequence, and
\* when it returns it returns exactly one target, whose mapped-field lists
\* have the length of the input.
C13_UngroupedAggregation ==
    \A t \in Instances :
        (Sorted(t) /\ group_by = None) =>
            /\ call[t].groups = <<call[t].sorted>>
            /\ IsPermutation(t, call[t].groups[1])
            /\ call[t].ok =>
                   /\ Len(call[t].output) = 1
                   /\ \A k \in KeysOrNone(mappings) :
                          Len(call[t].output[1].given[k]) = Len(call[t].input)

\* Three records, sorted into another order, aggregated into one target
C13_Witness ==
    \E t \in Instances :
        /\ Sorted(t) /\ call[t].ok
        /\ group_by = None
        /\ mappings # None
        /\ call[t].sorted = <<2, 3, 1>>
        /\ Len(call[t].output[1].given.name) = 3

\* The record at rank j of group g of the call on instance t
Member(t, g, j) == call[t].input[call[t].groups[g][j]]

\* C14: when aggregate returns, for every group and every entry of mappings
\* the target field holds a list as long as the group, whose j-th element
\* is the entry's instruction resolved against the j-th record of the group
\* (the groups being in the order of the sorted sequence, C9 and C10).
C14_MappedFieldCardinality ==
    \A t \in Instances :
        (call[t].op = "aggregate" /\ call[t].ok /\ mappings # None) =>
            \A g \in DOMAIN call[t].groups :
                \A e \in DOMAIN mappings.items :
                    LET vs == call[t].output[g].given[mappings.items[e].key]
                    IN  /\ Len(vs) = Len(call[t].groups[g])
                        /\ \A j \in DOMAIN call[t].groups[g] :
                               vs[j] = resolve_field(Self(t), Member(t, g, j),
                                                     mappings.items[e].val).v

\* A sorted, grouped call whose first group holds the two later records,
\* which have the same mapped value
C14_Witness ==
    \E t \in Instances :
        /\ call[t].op = "aggregate" /\ call[t].ok
        /\ mappings # None /\ group_by # None /\ sort_by # None
        /\ Len(call[t].groups) = 2
        /\ call[t].groups[1] = <<2, 3>>
        /\ call[t].output[1].given.name[1] = call[t].output[1].given.name[2]

\* The records of group g of the call on instance t, in group order
MembersOf(t, g) == [j \in DOMAIN call[t].groups[g] |-> Member(t, g, j)]

\* What an aggregation function is handed for group g: the list of the
\* named field of every record of the group for a (name, fn) pair, the
\* records themselves for a bare function
Handed(t, g, ins) ==
    IF ins.kind = "Transform"
    THEN [j \in DOMAIN call[t].groups[g] |-> Member(t, g, j)[ins.name]]
    ELSE MembersOf(t, g)

\* C15: when aggregate returns, for every group and every entry of
\* aggregations the target field holds the single value the entry's function
\* returns for the list it is handed, which has the length of the group and
\* the order of the group.
C15_AggregationResolution ==
    \A t \in Instances :
        (call[t].op = "aggregate" /\ call[t].ok /\ aggregations # None) =>
            \A g \in DOMAIN call[t].groups :
                \A e \in DOMAIN aggregations.items :
                    LET ins == aggregations.items[e].val
                    IN  /\ Len(Handed(t, g, ins)) = Len(call[t].groups[g])
                        /\ call[t].output[g].given[aggregations.items[e].key]
                               = Body(ins.fn.fn, context[t], Handed(t, g, ins)).v

\* A group of two records, the later one first, reduced to the field of the
\* record sorted first
C15_Witness ==
    \E t \in Instances :
        /\ call[t].op = "aggregate" /\ call[t].ok
        /\ aggregations # None /\ mappings # None
        /\ call[t].groups = << <<3, 1>>, <<2>> >>
        /\ call[t].output[1].given.id = call[t].input[3].b
        /\ call[t].input[3].b # call[t].input[1].b

(***************************************************************************)
(* Properties of map (SpecMapper)                                           *)
(***************************************************************************)
\* v is the value an instruction yields for the record r on instance t: the
\* field for a bare name, what the function returns for the field for a
\* (name, fn) pair, what the function returns for the record for a bare
\* function
Yields(t, r, ins, v) ==
    IF ins.kind = "Direct" THEN v = r[ins.name]
    ELSE LET res == Body(ins.fn.fn, context[t],
                         IF ins.kind = "Transform" THEN r[ins.name] ELSE r)
         IN  res.ok /\ v = res.v

\* C16: when map (or map_list) returns, the target built for a record holds
\* exactly the keys of mapping, each with the value its instruction yields
\* for that record; the fields no key names are left to their defaults.
C16_FieldResolution ==
    \A t \in Instances :
        (call[t].op \in {"map", "map_list"} /\ call[t].ok) =>
            \A i \in DOMAIN call[t].input :
                /\ DOMAIN call[t].output[i].given = Keys(mapping)
                /\ call[t].output[i].defaulted = DOMAIN target \ Keys(mapping)
                /\ \A e \in DOMAIN mapping.items :
                       Yields(t, call[t].input[i], mapping.items[e].val,
                              call[t].output[i].given[mapping.items[e].key])

\* map returned a target with two fields, one of them a transformed field
\* that differs from the field read
C16_Witness ==
    \E t \in Instances :
        /\ call[t].op = "map" /\ call[t].ok
        /\ Cardinality(Keys(mapping)) = 2
        /\ \E e \in DOMAIN mapping.items :
               /\ mapping.items[e].val.kind = "Transform"
               /\ call[t].output[1].given[mapping.items[e].key]
                      # call[t].input[1][mapping.items[e].val.name]

(***************************************************************************)
(* Properties of binding and of instances (SpecInstances)                   *)
(***************************************************************************)
\* The callable of the instruction the class declares
Declares ==
    IF kind = "mapper" THEN mapping.items[1].val.fn ELSE mappings.items[1].val.fn

\* What is supplied first to a callable, by its membership in the class
\* alone: self to a plain function of the class (a function among its member
\* functions), the class to a classmethod of the class, nothing to a
\* staticmethod of the class and nothing to anything else
Supplied(c) ==
    CASE c.bind \in {"instance", "static_func"} -> "self"
      [] c.bind = "class" -> "cls"
      [] OTHER -> "none"

\* The binder hands back the callable itself: neither the function curried
\* nor the function a descriptor of the class wraps
Unchanged(c) ==
    c.bind \in {"free", "class_func", "wrapped_class", "wrapped_static"}

\* The outcome of calling the binder's result with the argument arg on an
\* instance whose context is ctx, as the claim has it
CalledAs(ctx, c, arg) ==
    IF c.bind = "wrapped_class" THEN Raise("TypeError", <<>>)
    ELSE IF Supplied(c) # Expects(c.fn) THEN Raise("TypeError", <<>>)
    ELSE Body(c.fn, ctx, arg)

\* C17: the binder classifies a callable by its membership in the class
\* alone.  A plain function of the class is returned curried with self, a
\* classmethod of the class as its function curried with the class, a
\* staticmethod of the class as its function, anything else unchanged; and
\* a map call resolves its instruction by calling exactly that.
C17_CallableBinding ==
    LET c == Declares
        b == resolve_callable(c)
    IN  /\ b.fn = c.fn
        /\ b.first = Supplied(c)
        /\ Unchanged(c) <=> ~(is_instance_method(c) \/ is_class_method(c)
                                  \/ is_static_method(c))
        /\ Unchanged(c) =>
               b.as = (IF c.bind = "wrapped_class" THEN "classmethod"
                       ELSE IF c.bind = "wrapped_static" THEN "staticmethod"
                       ELSE "function")
        /\ ~Unchanged(c) => b.as = "function"
        /\ \A t \in Instances :
               call[t].op = "map" =>
                   LET res == CalledAs(context[t], c, call[t].input[1].a)
                   IN  /\ call[t].ok = res.ok
                       /\ call[t].ok => call[t].output[1].given.id = res.v
                       /\ ~call[t].ok => call[t].exc = res.exc

\* A map call on an instance whose instruction is an instance method that
\* multiplied the field by the factor of the context
C17_Witness ==
    \E t \in Instances :
        /\ call[t].op = "map" /\ call[t].ok
        /\ Declares = Callable("instance", "scale")
        /\ call[t].input[1].a = 1
        /\ call[t].output[1].given.id = context[t].factor

\* The value the declared instruction gives the i-th record of the call on
\* instance t under the context that instance was constructed with
Own(t, i) == CalledAs(ctxArg[t], Declares, call[t].input[i].a)

\* The list of values the call on instance t put in the target for its
\* records: one target each for map and map_list, one list for aggregate
Produced(t) ==
    IF call[t].op = "aggregate" THEN call[t].output[1].given.name
    ELSE [i \in DOMAIN call[t].output |-> call[t].output[i].given.id]

\* C18: an instance reads the context it was constructed with and no other.
\* Its context is the argument of its own constructor from construction on,
\* whatever is constructed or called on the other instance, and every call
\* on it gives the result that context determines.
C18_ContextIsolation ==
    \A t \in Instances :
        /\ context[t] = (IF Constructed(t) THEN ctxArg[t] ELSE None)
        /\ call[t] # NoCall =>
               /\ call[t].ok <=> \A i \in DOMAIN call[t].input : Own(t, i).ok
               /\ call[t].ok =>
                      /\ Len(Produced(t)) = Len(call[t].input)
                      /\ \A i \in DOMAIN call[t].input :
                             Produced(t)[i] = Own(t, i).v

\* Two instances constructed with different contexts were each called on
\* the same records and produced different values
C18_Witness ==
    /\ ctxArg[1] # None /\ ctxArg[2] # None
    /\ ctxArg[1] # ctxArg[2]
    /\ Declares.bind = "instance"
    /\ call[1].ok /\ call[2].ok
    /\ call[1].op = call[2].op /\ call[1].op # ""
    /\ call[1].input = call[2].input
    /\ call[1].output # call[2].output

\* C19: calls are idempotent.  Every map_list (or aggregate) call on an
\* instance, with the same input, produces what the first such call on that
\* instance produced, whatever was called on either instance in between.
C19_Idempotence ==
    \A t \in Instances :
        (seen[t] # None /\ call[t].op \in {"map_list", "aggregate"}) =>
            /\ call[t].input = seen[t].first.input
            /\ call[t].ok = seen[t].first.ok
            /\ call[t].output = seen[t].first.output
            /\ call[t].exc = seen[t].first.exc

\* map_list was called again on an instance that reads its context, after
\* the other instance of the class had been called with another context
C19_Witness ==
    \E t, u \in Instances :
        /\ t # u
        /\ seen[t] # None /\ seen[t].again
        /\ call[t].op = "map_list" /\ call[t].ok
        /\ Declares.bind = "instance"
        /\ call[u].ok /\ call[u].op = "map"
        /\ ctxArg[u] # ctxArg[t]

(***************************************************************************)
(* Properties of failing calls (SpecCalls)                                  *)
(***************************************************************************)
\* The errors raised when the steps of the call on instance t are taken one
\* by one: a sort_by or group_by selector on a record, an instruction of
\* mapping or mappings on a record, an aggregation on a group that was
\* formed, the construction of a target from a record or a group
SelectorErrors(t, sels) ==
    IF sels = None THEN {}
    ELSE {select(Self(t), call[t].input[i], sels.items[c]).exc :
             <<i, c>> \in {p \in (DOMAIN call[t].input) \X (DOMAIN sels.items) :
                 ~select(Self(t), call[t].input[p[1]], sels.items[p[2]]).ok}}

InstructionErrors(t, d) ==
    IF d = None THEN {}
    ELSE {resolve_field(Self(t), call[t].input[i], d.items[e].val).exc :
             <<i, e>> \in {p \in (DOMAIN call[t].input) \X (DOMAIN d.items) :
                 ~resolve_field(Self(t), call[t].input[p[1]], d.items[p[2]].val).ok}}

AggregationErrors(t) ==
    IF aggregations = None THEN {}
    ELSE {resolve_aggregation(Self(t), aggregations.items[e].val, MembersOf(t, g)).exc :
             <<g, e>> \in {p \in (DOMAIN call[t].groups) \X (DOMAIN aggregations.items) :
                 ~resolve_aggregation(Self(t), aggregations.items[p[2]].val,
                                      MembersOf(t, p[1])).ok}}

ConstructionErrors ==
    IF Mandatory(target) \ Declared # {} THEN {"ValidationError"} ELSE {}

StepErrors(t) ==
    IF call[t].op = "map_list"
    THEN InstructionErrors(t, mapping) \cup ConstructionErrors
    ELSE SelectorErrors(t, sort_by) \cup SelectorErrors(t, group_by)
         \cup InstructionErrors(t, mappings) \cup AggregationErrors(t)
         \cup ConstructionErrors

\* C20: there is no partial result.  A map_list or aggregate call in which
\* any step raises fails as a whole: it returns no output, for no record and
\* no group, and the error it raises is the error of a step, unchanged; a
\* call in which no step raises returns.
C20_NoPartialResults ==
    \A t \in Instances :
        call[t].op \in {"map_list", "aggregate"} =>
            /\ (call[t].input # <<>> /\ StepErrors(t) # {}) => ~call[t].ok
            /\ ~call[t].ok =>
                   /\ call[t].output = <<>>
                   /\ call[t].exc \in StepErrors(t)

\* map_list raised for its last record after the records before it had been
\* mapped and constructed
C20_Witness ==
    \E t \in Instances :
        /\ call[t].op = "map_list" /\ ~call[t].ok
        /\ Len(call[t].input) = 2
        /\ map(Self(t), call[t].input[1]).ok
        /\ call[t].exc = "ZeroDivisionError"
        /\ call[t].trace # <<>> /\ call[t].trace[1] # "construct"
        /\ \E k \in DOMAIN call[t].trace : call[t].trace[k] = "construct"

(***************************************************************************)
(* Frame of the calls (SpecCalls)                                           *)
(***************************************************************************)
\* C21: no step changes the caller's list (its records, their order, its
\* length) or the configuration of the class (mapping, mappings,
\* aggregations, group_by, sort_by and the target): construction, map,
\* map_list and aggregate leave them as they were.
C21_InputLeftUnchanged == [][data' = data /\ klass' = klass]_vars

\* aggregate returned after sorting two records into the other order, and
\* the caller's list is the list that was passed
C21_Witness ==
    \E t \in Instances :
        /\ call[t].op = "aggregate" /\ call[t].ok
        /\ sort_by # None
        /\ call[t].sorted = <<2, 1>>
        /\ data = call[t].input

(***************************************************************************)
(* Invocation counts (SpecCalls)                                            *)
(***************************************************************************)
UserFunctions ==
    {"inc", "fail0", "scale", "times_factor", "sum_ab", "parity_b", "total",
     "first", "count"}

\* How often the event f was entered during the call on instance t
Count(t, f) == Cardinality({k \in DOMAIN call[t].trace : call[t].trace[k] = f})

\* The number of entries of the dictionary d whose instruction calls f
Uses(d, f) ==
    IF d = None THEN 0
    ELSE Cardinality({e \in DOMAIN d.items :
                         /\ d.items[e].val.kind # "Direct"
                         /\ d.items[e].val.fn.fn = f})

\* The number of selectors of the tuple sels that call f
SelectorUses(sels, f) ==
    IF sels = None THEN 0
    ELSE Cardinality({c \in DOMAIN sels.items :
                         /\ sels.items[c].kind = "Extractor"
                         /\ sels.items[c].fn.fn = f})

\* Once per record for every entry of mapping or mappings and for every
\* sort_by and group_by selector, once per group for every entry of
\* aggregations
Invocations(t, f) ==
    IF call[t].op = "map_list"
    THEN Len(call[t].input) * Uses(mapping, f)
    ELSE Len(call[t].input)
             * (Uses(mappings, f) + SelectorUses(sort_by, f) + SelectorUses(group_by, f))
         + Len(call[t].groups) * Uses(aggregations, f)

\* One target per record for map_list, one per group for aggregate
Constructions(t) ==
    IF call[t].op = "map_list" THEN Len(call[t].input) ELSE Len(call[t].groups)

\* C22: a map_list or aggregate call that returns has entered every user
\* function exactly once per record for each entry of mapping or mappings
\* (and each sort_by or group_by selector) that names it and exactly once
\* per group for each entry of aggregations that names it, and has
\* constructed one target per record or group; a call that raises has
\* entered none more often than that.
C22_InvocationCounts ==
    \A t \in Instances :
        call[t].op \in {"map_list", "aggregate"} =>
            /\ \A f \in UserFunctions :
                   IF call[t].ok THEN Count(t, f) = Invocations(t, f)
                   ELSE Count(t, f) <= Invocations(t, f)
            /\ IF call[t].ok THEN Count(t, "construct") = Constructions(t)
               ELSE Count(t, "construct") <= Constructions(t)

\* aggregate returned one group of two records: the function of the
\* aggregations entry ran once, the function of the mappings entry twice
C22_Witness ==
    \E t \in Instances :
        /\ call[t].op = "aggregate" /\ call[t].ok
        /\ group_by = Tuple(<<Direct("a")>>)
        /\ call[t].groups = << <<1, 2>> >>
        /\ Count(t, "first") = 1
        /\ Count(t, "sum_ab") = 2


(***************************************************************************)
(* The dictionary variant against the pydantic engine                       *)
(***************************************************************************)
DictionaryInstance(t) == pc[t] = "ready_dictionary"

\* The error of the dictionary variant where the pydantic engine raises e
AsKeyError(e) == IF e = "AttributeError" THEN "KeyError" ELSE e

\* sort_by and group_by hold field names and callables only
PlainSelectors ==
    \A sels \in {sort_by, group_by} \ {None} :
        \A i \in DOMAIN sels.items : sels.items[i].kind # "Transform"

\* What BaseModelMapper.map passes to the target constructor for record r
Kwargs(t, r) == resolved_map(Self(t), mapping.items, r, <<>>, <<>>)

SameMappings(t) ==
    LET c == call[t]
    IN  /\ c.ok = (\A i \in DOMAIN c.input : Kwargs(t, c.input[i]).ok)
        /\ c.ok => /\ Len(c.output) = Len(c.input)
                   /\ \A i \in DOMAIN c.input : c.output[i] = Kwargs(t, c.input[i]).v
        /\ ~c.ok => \E i \in DOMAIN c.input :
                        /\ ~Kwargs(t, c.input[i]).ok
                        /\ c.exc = AsKeyError(Kwargs(t, c.input[i]).exc)
                        /\ \A j \in 1..(i - 1) : Kwargs(t, c.input[j]).ok
        /\ \A pyd \in {map_list(Self(t), c.input)} :
               pyd.ok => \A i \in DOMAIN c.input : c.output[i] = pyd.v[i].given

SameGroups(t) ==
    LET c == call[t]
    IN  \A pyd \in {aggregate(Self(t), c.input)} :
            /\ c.ok = (pyd.res.ok \/ pyd.res.exc = "ValidationError")
            /\ ~c.ok => c.exc = AsKeyError(pyd.res.exc)
            /\ c.ok =>
                   /\ c.sorted = pyd.sorted
                   /\ c.groups = pyd.groups
                   /\ Len(c.output) = Len(pyd.groups)
                   /\ \A g \in DOMAIN pyd.groups :
                          \A kw \in {resolve_group_objects(
                                         Self(t), Deref(c.input, pyd.groups[g]), <<>>)} :
                              kw.ok /\ c.output[g] = kw.v
            /\ pyd.res.ok =>
                   \A g \in DOMAIN pyd.groups : c.output[g] = pyd.res.v[g].given

\* C23: on the same class attributes (selectors being field names and
\* callables) and the same input, DictionaryAggregator.aggregate returns
\* exactly when BaseModelAggregator.aggregate resolves every group, and
\* returns, group for group and in the same order, the keyword arguments
\* from which BaseModelAggregator.aggregate constructs its targets;
\* DictionaryMapper.map and map_list return, record for record, the
\* keyword arguments BaseModelMapper.map passes to the target constructor.
\* Where a field is missing the dictionary variant raises KeyError in place
\* of AttributeError.
C23_SameEngineWithoutSchema ==
    \A t \in Instances :
        (DictionaryInstance(t) /\ call[t].op # "") =>
            IF call[t].op = "aggregate"
            THEN (assert_is_valid_aggregator = {} /\ PlainSelectors) => SameGroups(t)
            ELSE assert_is_valid_mapper = {} => SameMappings(t)

C23_Witness ==
    /\ DictionaryInstance(1)
    /\ call[1].op = "aggregate"
    /\ call[1].ok
    /\ sort_by # None
    /\ mappings # None
    /\ Len(call[1].groups) = 2
    /\ assert_is_valid_aggregator = {}
    /\ aggregate(Self(1), call[1].input).res.ok


(***************************************************************************)
(* The order of the validation checks (SpecConstruct)                       *)
(***************************************************************************)
Overlapping == KeysOrNone(mappings) \cap KeysOrNone(aggregations)
MissingRequired == get_required_fields(target) \ Declared
ExtraFields == Declared \ Annotations(target)

\* Instance t was rejected by the named check, which carries the fields F
RejectedBy(t, check, F) ==
    /\ Rejected(t)
    /\ error[t].check = check
    /\ Carried(t) = F

\* C24: the validator reports the first failing check only, in the order
\* absent configuration, overlap of the mappings and aggregations keys,
\* missing required fields, unknown extra fields; a configuration that
\* overlaps and misses a required field reports the overlap, one that
\* misses a required field and declares an unknown field reports the
\* missing fields; a configuration failing no check is constructed.
C24_FirstFailingCheckReported ==
    \A t \in Instances :
        Attempted(t) =>
            IF Absent THEN RejectedBy(t, "absent", {})
            ELSE IF kind = "aggregator" /\ Overlapping # {}
            THEN RejectedBy(t, "overlap", Overlapping)
            ELSE IF MissingRequired # {}
            THEN RejectedBy(t, "missing", MissingRequired)
            ELSE IF ExtraFields # {}
            THEN RejectedBy(t, "extra", ExtraFields)
            ELSE Constructed(t)

\* An aggregator that overlaps, misses a required field and declares an
\* unknown field, rejected for the overlap
C24_Witness ==
    \E t \in Instances :
        /\ kind = "aggregator"
        /\ Overlapping # {} /\ MissingRequired # {} /\ ExtraFields # {}
        /\ RejectedBy(t, "overlap", Overlapping)


(***************************************************************************)
(* The validator's required and known field sets (SpecConstruct)            *)
(***************************************************************************)
\* C25: the fields the validator treats as required are among the fields
\* it treats as known, also for a target that inherits fields from a parent
\* model, so that some declared field set passes both the missing-field and
\* the extra-field check; no instance is rejected for missing a field that
\* the validator would reject as unknown when declared.
C25_RequiredFieldsAreKnown ==
    /\ get_required_fields(target) \subseteq Annotations(target)
    /\ \E D \in SUBSET TypeHints(target) : Covers(D)
    /\ \A t \in Instances :
           (Rejected(t) /\ error[t].check = "missing") =>
               Carried(t) \subseteq Annotations(target)


(***************************************************************************)
(* The order of user-function calls and constructions (SpecOrdering)        *)
(***************************************************************************)
IsPrefix(s, w) == Len(s) <= Len(w) /\ SubSeq(w, 1, Len(s)) = s

\* The functions the instructions of the dictionary d call, in entry order
FnEvents(d) ==
    IF d = None THEN <<>>
    ELSE LET es == SelectSeq(d.items, LAMBDA e : e.val.kind # "Direct")
         IN  [i \in DOMAIN es |-> es[i].val.fn.fn]

\* The functions the selectors of the tuple sels call, in component order
SelectorEvents(sels) ==
    IF sels = None THEN <<>>
    ELSE LET es == SelectSeq(sels.items, LAMBDA e : e.kind = "Extractor")
         IN  [i \in DOMAIN es |-> es[i].fn.fn]

\* s repeated n times; every element of s repeated n times in a row
Times(s, n) ==
    IF Len(s) = 0 THEN <<>> ELSE [k \in 1..(Len(s) * n) |-> s[((k - 1) % Len(s)) + 1]]
EachTimes(s, n) == [k \in 1..(Len(s) * n) |-> s[((k - 1) \div n) + 1]]

\* Resolving the groups in emission order: for each group its aggregation
\* functions, then its mapping functions entry by entry over its records
RECURSIVE ResolutionEvents(_)
ResolutionEvents(groups) ==
    IF groups = <<>> THEN <<>>
    ELSE FnEvents(aggregations) \o EachTimes(FnEvents(mappings), Len(Head(groups)))
         \o ResolutionEvents(Tail(groups))

\* What an aggregate call goes through before its first construction
BeforeConstruction(t) ==
    Times(SelectorEvents(sort_by), Len(call[t].input))
    \o Times(SelectorEvents(group_by), Len(call[t].input))
    \o ResolutionEvents(call[t].groups)

\* What a call that returns has gone through
Schedule(t) ==
    IF call[t].op = "aggregate"
    THEN BeforeConstruction(t) \o Times(<<"construct">>, Len(call[t].groups))
    ELSE Times(FnEvents(mapping) \o <<"construct">>, Len(call[t].input))

\* C26: aggregate resolves every group (its aggregation functions, then its
\* mapping functions, the groups in emission order) before it constructs
\* the first target, so that a call failing at the construction of the
\* first group has run the user functions of every group; map and map_list
\* construct the target of a record before they resolve any instruction of
\* the next.  A call that raises has gone through a prefix of the schedule.
C26_ResolveThenConstruct ==
    \A t \in Instances :
        call[t].op # "" =>
            /\ IsPrefix(call[t].trace, Schedule(t))
            /\ call[t].ok => call[t].trace = Schedule(t)
            /\ (call[t].op = "aggregate" /\ call[t].exc = "ValidationError") =>
                   call[t].trace = BeforeConstruction(t) \o <<"construct">>
            /\ call[t].op = "aggregate" =>
                   \A i, j \in DOMAIN call[t].trace :
                       (i < j /\ call[t].trace[i] = "construct") =>
                           call[t].trace[j] = "construct"

\* An aggregate call over two groups that failed at the first construction
\* after the functions of both groups had run
C26_Witness ==
    \E t \in Instances :
        /\ call[t].op = "aggregate"
        /\ call[t].exc = "ValidationError"
        /\ Len(call[t].groups) = 2
        /\ call[t].trace = <<"first", "sum_ab", "first", "sum_ab", "construct">>


(***************************************************************************)
(* What the outcome of construction depends on (SpecOutcome)                *)
(***************************************************************************)
\* The outcome of the construction of instance t
Outcome(t) ==
    IF Constructed(t) THEN [ok |-> TRUE, check |-> "", fields |-> {}]
    ELSE [ok |-> FALSE, check |-> error[t].check, fields |-> Carried(t)]

\* The outcome as a function of the kind of class, of whether a dictionary
\* is declared, of the key sets M and G and of the target schema
Verdict(k, declared, M, G, schema) ==
    IF ~declared THEN [ok |-> FALSE, check |-> "absent", fields |-> {}]
    ELSE IF k = "aggregator" /\ M \cap G # {}
    THEN [ok |-> FALSE, check |-> "overlap", fields |-> M \cap G]
    ELSE IF get_required_fields(schema) \ (M \cup G) # {}
    THEN [ok |-> FALSE, check |-> "missing",
          fields |-> get_required_fields(schema) \ (M \cup G)]
    ELSE IF (M \cup G) \ Annotations(schema) # {}
    THEN [ok |-> FALSE, check |-> "extra", fields |-> (M \cup G) \ Annotations(schema)]
    ELSE [ok |-> TRUE, check |-> "", fields |-> {}]

\* C27: the outcome of construction (success, or which error with which
\* field set) is a function of the kind of class, of whether a
\* configuration dictionary is declared, of the key sets and of the target
\* schema: the instruction values, also those no instruction may take,
\* group_by, sort_by and the context do not enter it.
C27_OutcomeDependsOnKeysOnly ==
    \A t \in Instances :
        Attempted(t) =>
            Outcome(t) =
                Verdict(kind, ~Absent,
                        IF kind = "mapper" THEN KeysOrNone(mapping)
                        ELSE KeysOrNone(mappings),
                        KeysOrNone(aggregations), target)

\* An aggregator constructed with a context, a group_by and a sort_by
\* although one of its aggregations is a bare field name
C27_Witness ==
    \E t \in Instances :
        /\ kind = "aggregator" /\ Constructed(t)
        /\ context[t] # None /\ group_by # None /\ sort_by # None
        /\ \E i \in DOMAIN aggregations.items :
               aggregations.items[i].val.kind = "Direct"


(***************************************************************************)
(* The empty group_by and sort_by tuples (SpecEmptyTuples)                  *)
(***************************************************************************)
\* What the aggregator of instance t returns for the input of its call when
\* group_by is unset: the sorted input is the one group
WithoutGroupBy(t) ==
    aggregate_resolve(Self(t), call[t].input, call[t].sorted,
                      Ok(<<call[t].sorted>>, <<>>)).res

SameOutcome(c, res) ==
    /\ c.ok = res.ok
    /\ c.ok => c.output = res.v
    /\ ~c.ok => c.exc = res.exc

\* C28: an aggregator with group_by = () returns for every input what the
\* same aggregator returns with group_by unset, one record for the whole
\* input; a sort_by = () leaves the order of the input unchanged.
C28_EmptyTuplesLikeUnset ==
    \A t \in Instances :
        call[t].op = "aggregate" =>
            /\ sort_by = Tuple(<<>>) => call[t].sorted = Positions(call[t].input)
            /\ group_by = Tuple(<<>>) =>
                   /\ SameOutcome(call[t], WithoutGroupBy(t))
                   /\ call[t].ok => Len(call[t].output) = 1

====
